---------------------------- MODULE Spec2Model ----------------------------
(***************************************************************************)
(* A model of trickLED (src/trickLED/trickLED.py, src/trickLED/animations.py, *)
(* src/trickLED/generators.py): the animation run loop AnimationBase.play, *)
(* the bit-packed BitMap, the record-packed ByteMap, the pixel buffer      *)
(* TrickLED, the animations built on them (LitBits, Fire, NextGen,        *)
(* SideSwipe, Jitter, Convergent, Divergent), the colour functions uint8,  *)
(* blend and color_wheel and the colour generators random_vivid and        *)
(* random_pastel.                                                          *)
(*                                                                         *)
(* Encodings.                                                              *)
(*  - A bytearray is a sequence of bytes 0..255; Python's index i is the   *)
(*    sequence's index i + 1 (At, PySlice).                                *)
(*  - BitMap.buf is kept as the set of the indices of its 1 bits: bit g is *)
(*    bit (g % 8) of byte (g \div 8), which is how BitMap.bit addresses it.*)
(*    An unsigned 32-bit word is the set of the positions 0..31 of its 1   *)
(*    bits (TLC's integers stop at 2^31 - 1): x & mask is an intersection, *)
(*    a shift translates the positions, and struct's 'I' is little-endian  *)
(*    on the boards the library targets (ESP8266, ESP32).                  *)
(*  - A float result is computed exactly as IEEE arithmetic rounds it, in *)
(*    double precision (CPython) and in single precision (MicroPython):    *)
(*    FloatTrunc.                                                          *)
(***************************************************************************)
EXTENDS Integers, Sequences, FiniteSets, TLC

VARIABLES
    pc,              \* AnimationBase.play: where the coroutine stands
    frame,           \* AnimationBase.frame
    max_iterations,  \* play's argument (0: run until cancelled)
    exc,             \* the exception that ended play ("none" when none did)
    trace,           \* the calls play has completed, in order
    settings,        \* AnimationBase.settings (the keys the model reads)
    bitmap_n,        \* BitMap.n
    bitmap_buf,      \* BitMap.buf, as the set of its 1 bits
    bitmap_len,      \* len(BitMap.buf), in bytes
    bytemap_n,       \* ByteMap.n
    bytemap_bpi,     \* ByteMap.bpi
    bytemap_buf,     \* ByteMap.buf
    leds_n,          \* TrickLED.n
    leds_buf,        \* TrickLED.buf (NeoPixel.buf)
    repeat_n,        \* TrickLED.repeat_n (0: None)
    repeat_mode,     \* TrickLED.repeat_mode
    ops,             \* the calls made on the object under test, in order
    old,             \* the object's buffer before the first of those calls
    ret,             \* what the last call returned or raised
    heat_map,        \* Fire.heat_map.buf (a ByteMap of one byte per item)
    flash_points,    \* Fire._flash_points (the hotspots)
    sparks,          \* the heat calc_frame drew for each hotspot in this frame
    state,           \* AnimationBase.state (the keys the animation under test keeps)
    gens             \* how many colours each colour generator has yielded

vars == <<pc, frame, max_iterations, exc, trace, settings, bitmap_n, bitmap_buf,
          bitmap_len,
          bytemap_n, bytemap_bpi, bytemap_buf, leds_n, leds_buf, repeat_n,
          repeat_mode, ops, old, ret, heat_map, flash_points, sparks,
          state, gens>>

playVars == <<pc, frame, max_iterations, exc, trace>>
bitmapVars == <<bitmap_n, bitmap_buf, bitmap_len>>
bytemapVars == <<bytemap_n, bytemap_bpi, bytemap_buf>>
ledsVars == <<leds_n, leds_buf, repeat_n, repeat_mode>>
callVars == <<ops, old, ret>>
fireVars == <<heat_map, flash_points, sparks, state, gens>>
notPlayVars == <<settings, bitmapVars, bytemapVars, ledsVars, callVars, fireVars>>

----------------------------------------------------------------------------
(* Bounds of the model *)

\* play(N) is explored for N in 0..MaxIterations
MaxIterations == 3
\* frames explored when the loop has no limit (max_iterations = 0)
MaxFrames == 4

\* a BitMap is explored with 1..MaxWc words
MaxWc == 2
\* a BitMap under test starts with a run of 0..MaxRun consecutive 1 bits
MaxRun == 2

\* up to MaxBitMapOps calls are made on a BitMap
MaxBitMapOps == 2

\* a ByteMap is explored with 1..MaxItems records
MaxItems == 3
\* a ByteMap is read at the indices -(n + MaxOver)..(n + MaxOver)
MaxOver == 2
\* a strip whose repeat section is explored has 1..MaxLeds pixels
MaxLeds == 6
\* a strip that is blended has 1..MaxBlendLeds pixels
MaxBlendLeds == 3

\* a strip that is adjusted has 1..MaxAdjustLeds pixels
MaxAdjustLeds == 2
\* adjust is called with shifts up to MaxShiftOver past its limit
MaxShiftOver == 1

\* Fire runs on strips of 1..MaxFireN pixels and of FireLongStrip pixels, which
\* is longer than a blend window, for MaxFireFrames frames
MaxFireN == 3
FireLongStrip == 13
MaxFireFrames == 2

\* LitBits runs on strips of 1..MaxCalcN pixels and of whole words
MaxCalcN == 10
\* frames of LitBits that are explored
MaxLitFrames == 4

\* uint8 is applied to the quarters -MaxQuarters / 4 .. MaxQuarters / 4
MaxQuarters == 1100
\* blend is applied to colours with channels in 0..MaxChannel and their
\* complements 255 - MaxChannel..255
MaxChannel == 60
\* color_wheel is applied to the hues -1..MaxHue
MaxHue == 260
\* fill_gradient is applied to maps and strips of 1..MaxFillN records
MaxFillN == 4
\* NextGen runs on strips of 1..MaxNextN pixels with 0..MaxBlanks blanks for
\* MaxNextFrames frames
MaxNextN == 5
MaxBlanks == 2
MaxNextFrames == 7
\* SideSwipe runs on strips of 1..MaxSwipeN pixels with 1..MaxGens generators
\* for MaxSwipeFrames frames
MaxSwipeN == 4
MaxGens == 3
MaxSwipeFrames == 9
\* Jitter runs on strips of 1..MaxJitterN pixels; it does not read the frame
\* number, which the model keeps modulo JitterFrameWrap
MaxJitterN == 2
JitterFrameWrap == 2
\* Convergent and Divergent run on strips of 1..MaxMoverN pixels; they do not
\* read the frame number, which the model keeps modulo MoverFrameWrap
MaxMoverN == 6
MoverFrameWrap == 2

----------------------------------------------------------------------------
(* Python helpers *)

Min(a, b) == IF a < b THEN a ELSE b
Max(a, b) == IF a > b THEN a ELSE b

\* s[i] of a Python sequence, 0 <= i < len(s)
At(s, i) == s[i + 1]

\* how Python places a slice bound in a sequence of length len
SliceBound(i, len) == IF i < 0 THEN Max(i + len, 0) ELSE Min(i, len)

\* s[a:b]
PySlice(s, a, b) ==
    LET lo == SliceBound(a, Len(s))
        hi == SliceBound(b, Len(s))
    IN  IF lo >= hi THEN <<>> ELSE SubSeq(s, lo + 1, hi)

\* s[a:] and s[:b]
PySliceFrom(s, a) == PySlice(s, a, Len(s))
PySliceTo(s, b) == PySlice(s, 0, b)

\* s with s[a:b] = t, for 0 <= a <= b <= len(s)
PySliceAssign(s, a, b, t) == SubSeq(s, 1, a) \o t \o SubSeq(s, b + 1, Len(s))

\* how many times x occurs in s
Count(s, x) == Cardinality({i \in 1..Len(s) : s[i] = x})

\* [v] * n
Repeated(v, n) == [i \in 1..n |-> v]

----------------------------------------------------------------------------
(* The values the variables of another component keep in a specification   *)
(* that does not use them                                                   *)

IdleSettings == settings = [scroll_speed |-> 1, lit_scroll_speed |-> -1]
IdleBitMap == bitmap_n = 0 /\ bitmap_buf = {} /\ bitmap_len = 0
IdleByteMap == bytemap_n = 0 /\ bytemap_bpi = 3 /\ bytemap_buf = <<>>
IdleLeds == leds_n = 0 /\ leds_buf = <<>> /\ repeat_n = 0 /\ repeat_mode = 1
IdleFire ==
    /\ heat_map = <<>> /\ flash_points = {} /\ sparks = <<>>
    /\ state = <<>> /\ gens = <<>>
IdleCall == ops = <<>> /\ old = <<>> /\ ret = <<"none">>

----------------------------------------------------------------------------
(* AnimationBase.play: the run loop *)

\* while max_iterations == 0 or self.frame < max_iterations
LoopCondOffByOne(f, m) == m = 0 \/ f <= m
LoopCond(f, m) == m = 0 \/ f < m

\* except KeyboardInterrupt: ... return; anything else leaves play as raised
HandlerCatchesAll(e) == "returned"
Handler(e) == IF e = "KeyboardInterrupt" THEN "returned" ELSE "raised"

\* the statements the try block covers
InTry == {"test", "calc", "write", "sleep"}

\* play(max_iterations) is called on a constructed animation
PlayCall(n) ==
    /\ pc = "created"
    /\ pc' = "setup"
    /\ max_iterations' = n
    /\ UNCHANGED <<frame, exc, trace, notPlayVars>>

\* kwargs, self.leds.fill(0), self.setup(), self.frame = 0, ival, start_ticks
PlaySetup ==
    /\ pc = "setup"
    /\ trace' = Append(trace, "setup")
    /\ frame' = 0
    /\ pc' = "test"
    /\ UNCHANGED <<max_iterations, exc, notPlayVars>>

\* PlayLoopTest without self.frame += 1
PlayLoopTestNoIncrement ==
    /\ pc = "test"
    /\ IF LoopCond(frame, max_iterations)
       THEN /\ Count(trace, "frame") < MaxFrames
            /\ trace' = Append(trace, "frame")
            /\ pc' = "calc"
            /\ UNCHANGED frame
       ELSE /\ pc' = "returned"
            /\ UNCHANGED <<frame, trace>>
    /\ UNCHANGED <<max_iterations, exc, notPlayVars>>

\* the while test; self.frame += 1 when it holds, _print_fps and return when not
PlayLoopTest ==
    /\ pc = "test"
    /\ IF LoopCond(frame, max_iterations)
       THEN /\ max_iterations = 0 => frame < MaxFrames
            /\ frame' = frame + 1
            /\ trace' = Append(trace, "frame")
            /\ pc' = "calc"
       ELSE /\ pc' = "returned"
            /\ UNCHANGED <<frame, trace>>
    /\ UNCHANGED <<max_iterations, exc, notPlayVars>>

\* self.calc_frame(): completes, or raises
PlayCalcFrame ==
    /\ pc = "calc"
    /\ \/ /\ trace' = Append(trace, "calc_frame")
          /\ pc' = "write"
          /\ UNCHANGED exc
       \/ /\ exc' = "Exception"
          /\ pc' = Handler("Exception")
          /\ UNCHANGED trace
    /\ UNCHANGED <<frame, max_iterations, notPlayVars>>

\* self.leds.write(): completes, or raises
PlayWrite ==
    /\ pc = "write"
    /\ \/ /\ trace' = Append(trace, "write")
          /\ pc' = "sleep"
          /\ UNCHANGED exc
       \/ /\ exc' = "Exception"
          /\ pc' = Handler("Exception")
          /\ UNCHANGED trace
    /\ UNCHANGED <<frame, max_iterations, notPlayVars>>

\* await asyncio.sleep_ms(ival)
PlaySleep ==
    /\ pc = "sleep"
    /\ trace' = Append(trace, "sleep")
    /\ pc' = "test"
    /\ UNCHANGED <<frame, max_iterations, exc, notPlayVars>>

\* KeyboardInterrupt is raised wherever the interpreter stands inside the try
\* block: at the loop test, in calc_frame, in write or in the sleep
PlayInterrupt ==
    /\ pc \in InTry
    /\ exc' = "KeyboardInterrupt"
    /\ pc' = Handler("KeyboardInterrupt")
    /\ UNCHANGED <<frame, max_iterations, trace, notPlayVars>>

\* KeyboardInterrupt raised before the try block is entered: no handler
PlayInterruptSetup ==
    /\ pc = "setup"
    /\ exc' = "KeyboardInterrupt"
    /\ pc' = "raised"
    /\ UNCHANGED <<frame, max_iterations, trace, notPlayVars>>

PlayInit ==
    /\ pc = "created" /\ frame = 0 /\ max_iterations = 0
    /\ exc = "none" /\ trace = <<>>
    /\ IdleSettings /\ IdleFire /\ IdleBitMap /\ IdleByteMap /\ IdleLeds /\ IdleCall

PlayNext ==
    \/ \E n \in 0..MaxIterations : PlayCall(n)
    \/ PlaySetup
    \/ PlayLoopTest
    \/ PlayCalcFrame
    \/ PlayWrite
    \/ PlaySleep
    \/ PlayInterrupt
    \/ PlayInterruptSetup

Spec == PlayInit /\ [][PlayNext]_vars

----------------------------------------------------------------------------
(* Properties of the run loop *)

RECURSIVE ExpectedTrace(_)
\* setup, then n times: frame += 1, calc_frame, write, sleep
ExpectedTrace(n) ==
    IF n = 0 THEN <<"setup">>
    ELSE ExpectedTrace(n - 1) \o <<"frame", "calc_frame", "write", "sleep">>

Calcs == Count(trace, "calc_frame")
Flushes == Count(trace, "write")

\* C1: play(N), N >= 1, that ends with no cancellation and no failure has run
\* setup once and first, then exactly N times frame += 1, calc_frame, write,
\* sleep in that order, and stops with frame = N and N flushes.
C1_PlayRunsNFrames ==
    (pc = "returned" /\ exc = "none" /\ max_iterations >= 1) =>
        /\ trace = ExpectedTrace(max_iterations)
        /\ frame = max_iterations
        /\ Flushes = max_iterations

C1_Witness ==
    pc = "returned" /\ exc = "none" /\ max_iterations = 3 /\ Flushes = 3

----------------------------------------------------------------------------
(* BitMap *)

\* the width of a word of BitMap.buf
WordBits == 32

\* self.wc = math.ceil(n / 32)
BitMapWc(n) == (n + WordBits - 1) \div WordBits

\* self._mi = self.wc * 32
BitMapMi(n) == BitMapWc(n) * WordBits

\* 2 ** k - 1, as a word
LowMask(k) == 0..(k - 1)

\* BITS_ALL_32 - mask, for a mask within 32 bits
MaskComplement(mask) == (0..(WordBits - 1)) \ mask

\* shift_bits(val, shift): val << shift, val >> -shift, or val
ShiftBits(val, shift) ==
    IF shift > 0 THEN {b + shift : b \in val}
    ELSE IF shift < 0 THEN {b + shift : b \in {c \in val : c + shift >= 0}}
    ELSE val

\* src + fill: the two never have a 1 bit in common, so the sum carries nothing
WordAdd(src, fill) == src \cup fill

\* struct.unpack('I', buf[off:off + 4])[0]: the four bytes from byte off on
Unpack(buf, off) ==
    {g - 8 * off : g \in {h \in buf : 8 * off <= h /\ h < 8 * off + WordBits}}

\* the bits struct.pack('I', word) puts at buf[i * 4: i * 4 + 4]
PackAt(i, word) == {WordBits * i + b : b \in word}

\* BitMap.bit(idx): (self.buf[idx // 8] & (1 << idx % 8)) >> idx % 8
BitMapBit(buf, idx) == IF idx \in buf THEN 1 ELSE 0

\* BitMap.bit(idx, val)
BitMapSetBit(buf, idx, val) ==
    IF val = 0 THEN buf \ {idx}
    ELSE IF val = 1 THEN buf \cup {idx}
    ELSE buf

\* len(bytearray(self.wc * 4))
BitMapBufLen(n) == BitMapWc(n) * 4

\* the length of a buffer of len bytes after buf[a:b] = k bytes
SliceAssignLen(len, a, b, k) ==
    LET lo == SliceBound(a, len)
        hi == Max(lo, SliceBound(b, len))
    IN  lo + k + (len - hi)

\* the length of the buffer after the second loop of scroll from word i on:
\* self.buf[i * 4: i * 4 + 4] = four packed bytes, for every word
RECURSIVE ScrollLenFrom(_, _, _)
ScrollLenFrom(i, wc, len) ==
    IF i >= wc THEN len
    ELSE ScrollLenFrom(i + 1, wc, SliceAssignLen(len, i * 4, i * 4 + 4, 4))
BitMapScrollLen(wc, len) == ScrollLenFrom(0, wc, len)

\* the bytes of the pattern repeat(val) repeats, val a word given by its 1 bits
PatternBytes(word) ==
    IF word \subseteq 0..7 THEN 1
    ELSE IF word \subseteq 0..15 THEN 2
    ELSE IF word \subseteq 0..23 THEN 3
    ELSE 4

\* how many times repeat(val) appends its pattern
PatternCount(wc, word) ==
    IF PatternBytes(word) = 1 THEN wc * 4
    ELSE IF PatternBytes(word) = 2 THEN wc * 2
    ELSE IF PatternBytes(word) = 3 THEN (wc * 4 + 2) \div 3
    ELSE wc

\* len(self.buf) after repeat(val) without the cut to wc * 4 bytes
BitMapRepeatLenUncut(n, word) ==
    PatternBytes(word) * PatternCount(BitMapWc(n), word)

\* len(self.buf) after repeat(val), 0 <= val < 2^32: the patterns appended, cut
\* to wc * 4 bytes by buf[0:self.wc * 4]
BitMapRepeatLen(n, word) ==
    LET built == PatternBytes(word) * PatternCount(BitMapWc(n), word)
    IN  IF PatternBytes(word) = 1 THEN built
        ELSE Min(built, BitMapWc(n) * 4)

\* words.append(struct.unpack('I', self.buf[i:i+4])[0])
ScrollWord(buf, i) == Unpack(buf, i)

\* BitMap.scroll(steps), for |steps| <= 32: the new buffer
BitMapScroll(n, buf, steps) ==
    LET wc == BitMapWc(n)
        src_mask == IF steps > 0 THEN LowMask(WordBits - steps)
                    ELSE MaskComplement(LowMask(-steps))
        src_shift == steps
        fill_mask == IF steps > 0 THEN MaskComplement(LowMask(WordBits - steps))
                     ELSE LowMask(-steps)
        fill_shift == IF steps > 0 THEN steps - WordBits ELSE WordBits + steps
        fill_loc == IF wc = 1 THEN 0 ELSE IF steps > 0 THEN -1 ELSE 1
        words == [i \in 0..(wc - 1) |-> ScrollWord(buf, i)]
        out(i) ==
            LET fill_idx == (i + fill_loc) % wc
                src == ShiftBits(words[i] \cap src_mask, src_shift)
                fill == ShiftBits(words[fill_idx] \cap fill_mask, fill_shift)
            IN  PackAt(i, WordAdd(src, fill))
    IN  UNION {out(i) : i \in 0..(wc - 1)}

\* BitMap.repeat(val) for a one-byte pattern, 0 <= val < 256
BitMapRepeat(n, val) ==
    {g \in 0..(BitMapMi(n) - 1) : (val \div (2 ^ (g % 8))) % 2 = 1}

\* the sizes a BitMap is built with: whole words, and ten bits into the last
BitMapSizes == {n \in 1..(WordBits * MaxWc) : n % WordBits \in {0, 10}}

\* a run of len 1 bits from bit a on, around the end of the buffer
Run(a, len, size) == {(a + j) % size : j \in 0..(len - 1)}

\* bm.scroll(steps), the first call on the BitMap under test
BitMapScrollCall(steps) ==
    /\ pc = "bitmap" /\ ops = <<>>
    /\ bitmap_buf' = BitMapScroll(bitmap_n, bitmap_buf, steps)
    /\ bitmap_len' = BitMapScrollLen(BitMapWc(bitmap_n), bitmap_len)
    /\ ops' = Append(ops, <<"scroll", steps>>)
    /\ UNCHANGED <<bitmap_n, old, ret>>
    /\ UNCHANGED <<frame, max_iterations, exc, trace, pc>>
    /\ UNCHANGED <<settings, fireVars, bytemapVars, ledsVars>>

\* bm.scroll(-k) right after bm.scroll(k)
BitMapScrollBack ==
    /\ pc = "bitmap" /\ Len(ops) = 1 /\ ops[1][1] = "scroll"
    /\ bitmap_buf' = BitMapScroll(bitmap_n, bitmap_buf, -ops[1][2])
    /\ bitmap_len' = BitMapScrollLen(BitMapWc(bitmap_n), bitmap_len)
    /\ ops' = Append(ops, <<"scroll", -ops[1][2]>>)
    /\ UNCHANGED <<bitmap_n, old, ret>>
    /\ UNCHANGED <<frame, max_iterations, exc, trace, pc>>
    /\ UNCHANGED <<settings, fireVars, bytemapVars, ledsVars>>

\* BitMap(n), then bm[i] = 1 for the bits of a run
BitMapInit ==
    /\ pc = "bitmap" /\ frame = 0 /\ max_iterations = 0
    /\ exc = "none" /\ trace = <<>>
    /\ bitmap_n \in BitMapSizes
    /\ bitmap_len = BitMapBufLen(bitmap_n)
    /\ \E a \in 0..(BitMapMi(bitmap_n) - 1), len \in 0..MaxRun :
           bitmap_buf = Run(a, len, BitMapMi(bitmap_n))
    /\ old = bitmap_buf /\ ops = <<>> /\ ret = <<"none">>
    /\ IdleSettings /\ IdleFire /\ IdleByteMap /\ IdleLeds

BitMapNext ==
    \/ \E steps \in (-WordBits)..WordBits : BitMapScrollCall(steps)
    \/ BitMapScrollBack

SpecBitMap == BitMapInit /\ [][BitMapNext]_vars

\* buf rotated by steps within 0..size-1
Rotate(buf, steps, size) == {(g + steps) % size : g \in buf}

\* C4 as claimed: scroll(steps), 1 <= |steps| <= 32, rotates the whole
\* wc*32-bit buffer: the bit at (j + steps) mod (wc*32) is the bit that was at j.
C4_ScrollRotatesWholeBuffer ==
    (Len(ops) = 1 /\ ops[1][1] = "scroll" /\ ops[1][2] # 0) =>
        bitmap_buf = Rotate(old, ops[1][2], BitMapMi(bitmap_n))

\* C5 as claimed: scroll(k) then scroll(-k), for k in 1..32 or in -32..-1,
\* leaves the buffer as it was.
C5_ScrollRoundTrip ==
    (Len(ops) = 2 /\ ops[1][1] = "scroll" /\ ops[1][2] # 0) =>
        bitmap_buf = old

----------------------------------------------------------------------------
(* BitMap: bit reads and writes, randomize, repeat, and the buffer length *)

\* BitMap.__getitem__ that checks the index against the padded size
BitMapGetItemPadded(n, buf, i) ==
    IF 0 <= i /\ i < BitMapMi(n) THEN <<"ok", BitMapBit(buf, i)>>
    ELSE <<"IndexError">>

\* BitMap.__getitem__(i): <<"ok", bit>> or <<"IndexError">>
BitMapGetItemChecked(n, buf, i) ==
    IF 0 <= i /\ i < n THEN <<"ok", BitMapBit(buf, i)>>
    ELSE <<"IndexError">>

\* BitMap.__setitem__(i, val): the new buffer and <<"ok">> or <<"IndexError">>
BitMapSetItem(n, buf, i, val) ==
    IF 0 <= i /\ i < BitMapMi(n)
    THEN [buf |-> BitMapSetBit(buf, i, val), ret |-> <<"ok">>]
    ELSE [buf |-> buf, ret |-> <<"IndexError">>]

\* the words getrandbits(32) and its combinations are drawn from in the model
RandomWords == {{}, {0, 5, 31}, 0..(WordBits - 1)}

\* rand32 that takes pct = 100 for one more weighted draw
Rand32OfNoFull(pct, grb) ==
    IF pct < 1 THEN {}
    ELSE IF pct <= 6 THEN grb[1] \cap grb[2] \cap grb[3] \cap grb[4]
    ELSE IF pct <= 19 THEN grb[1] \cap grb[2] \cap grb[3]
    ELSE IF pct <= 31 THEN grb[1] \cap grb[2]
    ELSE IF pct <= 44 THEN grb[1] \cap (grb[2] \cup grb[3])
    ELSE IF pct <= 56 THEN grb[1]
    ELSE IF pct <= 69 THEN grb[1] \cup (grb[2] \cap grb[3])
    ELSE IF pct <= 81 THEN grb[1] \cup grb[2]
    ELSE IF pct <= 94 THEN grb[1] \cup grb[2] \cup grb[3]
    ELSE grb[1] \cup grb[2] \cup grb[3] \cup grb[4]

\* rand32(pct) when the k-th getrandbits(32) it may call returns grb[k]
Rand32Of(pct, grb) ==
    IF pct < 1 THEN {}
    ELSE IF pct <= 6 THEN grb[1] \cap grb[2] \cap grb[3] \cap grb[4]
    ELSE IF pct <= 19 THEN grb[1] \cap grb[2] \cap grb[3]
    ELSE IF pct <= 31 THEN grb[1] \cap grb[2]
    ELSE IF pct <= 44 THEN grb[1] \cap (grb[2] \cup grb[3])
    ELSE IF pct <= 56 THEN grb[1]
    ELSE IF pct <= 69 THEN grb[1] \cup (grb[2] \cap grb[3])
    ELSE IF pct <= 81 THEN grb[1] \cup grb[2]
    ELSE IF pct <= 94 THEN grb[1] \cup grb[2] \cup grb[3]
    ELSE IF pct >= 100 THEN 0..(WordBits - 1)
    ELSE grb[1] \cup grb[2] \cup grb[3] \cup grb[4]

\* the words rand32(pct) can return
Rand32(pct) == {Rand32Of(pct, grb) : grb \in [1..4 -> RandomWords]}

\* the percentages randomize is called with
RandomizePcts == {-1, 0, 1, 6, 40, 50, 97, 100, 101}

\* the buffer of BitMap.randomize when word i is drawn as words[i]
BitMapRandomize(n, words) ==
    UNION {PackAt(i, words[i]) : i \in 0..(BitMapWc(n) - 1)}

\* len(self.buf) after randomize: four packed bytes appended for every word
BitMapRandomizeLen(n) == 4 * BitMapWc(n)

\* the buffer of repeat(val) that repeats every pattern of more than one byte
\* as a word of four bytes
BitMapRepeatAsWords(n, word) ==
    {g \in 0..(8 * BitMapRepeatLen(n, word) - 1) :
        (g % (8 * (IF PatternBytes(word) = 1 THEN 1 ELSE 4))) \in word}

\* the buffer of repeat(val), 0 <= val < 2^32 given by its 1 bits: the bytes of
\* the pattern, lowest first, over and over, cut to the length of the buffer
BitMapRepeatWord(n, word) ==
    {g \in 0..(8 * BitMapRepeatLen(n, word) - 1) :
        (g % (8 * PatternBytes(word))) \in word}

\* a value handed to repeat: <<"int", the 1 bits of the int>> or <<"float">>
\* BitMap.repeat(val): the new buffer and length, and <<"ok">> or
\* <<"ValueError">>
BitMapRepeatAny(n, buf, len, val) ==
    IF val[1] # "int" \/ \E b \in val[2] : b >= WordBits
    THEN [buf |-> buf, len |-> len, ret |-> <<"ValueError">>]
    ELSE [buf |-> BitMapRepeatWord(n, val[2]),
          len |-> BitMapRepeatLen(n, val[2]), ret |-> <<"ok">>]

\* the indices a bit of the BitMap under test is read and written at
BitMapIndices ==
    {-1, 0, bitmap_n - 1, bitmap_n, BitMapMi(bitmap_n) - 1, BitMapMi(bitmap_n)}

\* the values repeat is called with: patterns of one, two, three and four
\* bytes, 2^32 and a float
RepeatValues ==
    {<<"int", {0, 1, 2, 4, 5, 6}>>, <<"int", {0, 9}>>, <<"int", {3, 17}>>,
     <<"int", {1, 31}>>, <<"int", {32}>>, <<"float">>}

\* the steps scroll is called with
ScrollSteps == {-WordBits, -1, 0, 1, WordBits}

\* bm[i] = val
BitMapSetItemCall(i, val) ==
    /\ pc = "bitmapops" /\ Len(ops) < MaxBitMapOps
    /\ LET r == BitMapSetItem(bitmap_n, bitmap_buf, i, val)
       IN  bitmap_buf' = r.buf /\ ret' = r.ret
    /\ ops' = Append(ops, <<"setitem", i, val>>)
    /\ UNCHANGED <<bitmap_n, bitmap_len, old>>
    /\ UNCHANGED <<frame, max_iterations, exc, trace, pc>>
    /\ UNCHANGED <<settings, fireVars, bytemapVars, ledsVars>>

\* bm[i]
BitMapGetItemCall(i) ==
    /\ pc = "bitmapops" /\ Len(ops) < MaxBitMapOps
    /\ ret' = BitMapGetItemChecked(bitmap_n, bitmap_buf, i)
    /\ ops' = Append(ops, <<"getitem", i>>)
    /\ UNCHANGED <<bitmapVars, old>>
    /\ UNCHANGED <<frame, max_iterations, exc, trace, pc>>
    /\ UNCHANGED <<settings, fireVars, bytemapVars, ledsVars>>

\* bm.scroll(steps)
BitMapOpsScrollCall(steps) ==
    /\ pc = "bitmapops" /\ Len(ops) < MaxBitMapOps
    /\ bitmap_buf' = BitMapScroll(bitmap_n, bitmap_buf, steps)
    /\ bitmap_len' = BitMapScrollLen(BitMapWc(bitmap_n), bitmap_len)
    /\ ret' = <<"ok">>
    /\ ops' = Append(ops, <<"scroll", steps>>)
    /\ UNCHANGED <<bitmap_n, old>>
    /\ UNCHANGED <<frame, max_iterations, exc, trace, pc>>
    /\ UNCHANGED <<settings, fireVars, bytemapVars, ledsVars>>

\* bm.randomize(pct)
BitMapRandomizeCall(pct) ==
    /\ pc = "bitmapops" /\ Len(ops) < MaxBitMapOps
    /\ \E words \in [0..(BitMapWc(bitmap_n) - 1) -> Rand32(pct)] :
           bitmap_buf' = BitMapRandomize(bitmap_n, words)
    /\ bitmap_len' = BitMapRandomizeLen(bitmap_n)
    /\ ret' = <<"ok">>
    /\ ops' = Append(ops, <<"randomize", pct>>)
    /\ UNCHANGED <<bitmap_n, old>>
    /\ UNCHANGED <<frame, max_iterations, exc, trace, pc>>
    /\ UNCHANGED <<settings, fireVars, bytemapVars, ledsVars>>

\* bm.repeat(val)
BitMapRepeatCall(val) ==
    /\ pc = "bitmapops" /\ Len(ops) < MaxBitMapOps
    /\ LET r == BitMapRepeatAny(bitmap_n, bitmap_buf, bitmap_len, val)
       IN  bitmap_buf' = r.buf /\ bitmap_len' = r.len /\ ret' = r.ret
    /\ ops' = Append(ops, <<"repeat", val>>)
    /\ UNCHANGED <<bitmap_n, old>>
    /\ UNCHANGED <<frame, max_iterations, exc, trace, pc>>
    /\ UNCHANGED <<settings, fireVars, bytemapVars, ledsVars>>

\* BitMap(n), then bm[i] = 1 for the bits of a run at either end
BitMapOpsInit ==
    /\ pc = "bitmapops" /\ frame = 0 /\ max_iterations = 0
    /\ exc = "none" /\ trace = <<>>
    /\ bitmap_n \in BitMapSizes
    /\ bitmap_len = BitMapBufLen(bitmap_n)
    /\ \E a \in {0, bitmap_n - 1}, len \in {0, MaxRun} :
           bitmap_buf = Run(a, len, BitMapMi(bitmap_n))
    /\ old = bitmap_buf /\ ops = <<>> /\ ret = <<"none">>
    /\ IdleSettings /\ IdleFire /\ IdleByteMap /\ IdleLeds

BitMapOpsNext ==
    \/ \E i \in BitMapIndices, val \in {0, 1} : BitMapSetItemCall(i, val)
    \/ \E i \in BitMapIndices : BitMapGetItemCall(i)
    \/ \E steps \in ScrollSteps : BitMapOpsScrollCall(steps)
    \/ \E pct \in RandomizePcts : BitMapRandomizeCall(pct)
    \/ \E val \in RepeatValues : BitMapRepeatCall(val)

SpecBitMapOps == BitMapOpsInit /\ [][BitMapOpsNext]_vars

\* C18: after any sequence of bit assignments, scrolls (|steps| <= 32),
\* randomize and repeat calls (patterns of one to four bytes) the buffer of a
\* BitMap of n bits is 4 * ceil(n / 32) bytes long.
C18_BufferLength ==
    pc = "bitmapops" => bitmap_len = 4 * ((bitmap_n + 31) \div 32)

\* a pattern of three bytes was repeated over a BitMap and a call followed
C18_Witness ==
    /\ pc = "bitmapops" /\ Len(ops) = 2
    /\ ops[1] = <<"repeat", <<"int", {3, 17}>>>>
    /\ ops[2][1] = "scroll"
    /\ bitmap_n % WordBits # 0

\* the period of the pattern of repeat(val), in bits
Period(word) ==
    IF word \subseteq 0..7 THEN 8
    ELSE IF word \subseteq 0..15 THEN 16
    ELSE IF word \subseteq 0..23 THEN 24
    ELSE 32

\* C19: after repeat(val), 0 <= val < 2^32, bit i of the BitMap is bit (i mod P)
\* of val for every i of 0..n-1, P being 8, 16, 24 or 32 for val under 2^8,
\* 2^16, 2^24 and from 2^24 on; repeat with a value that is not an int or is
\* 2^32 or more raises ValueError and leaves the buffer unchanged.
C19_RepeatPattern ==
    (pc = "bitmapops" /\ Len(ops) >= 1 /\ ops[Len(ops)][1] = "repeat") =>
        LET val == ops[Len(ops)][2]
        IN  IF val[1] = "int" /\ \A b \in val[2] : b < WordBits
            THEN /\ ret = <<"ok">>
                 /\ \A i \in 0..(bitmap_n - 1) :
                        BitMapGetItemChecked(bitmap_n, bitmap_buf, i) =
                            <<"ok", IF (i % Period(val[2])) \in val[2]
                                    THEN 1 ELSE 0>>
            ELSE /\ ret = <<"ValueError">>
                 /\ Len(ops) = 1 =>
                        (bitmap_buf = old
                         /\ bitmap_len = BitMapBufLen(bitmap_n))

\* a pattern of three bytes was repeated over a BitMap of two words
C19_Witness ==
    /\ pc = "bitmapops" /\ Len(ops) >= 1
    /\ ops[Len(ops)] = <<"repeat", <<"int", {3, 17}>>>>
    /\ bitmap_n > WordBits
    /\ BitMapBit(bitmap_buf, 24 + 3) = 1 /\ BitMapBit(bitmap_buf, 24 + 17) = 1

C21_RandomizeExtremes ==
    (pc = "bitmapops" /\ Len(ops) >= 1 /\ ops[Len(ops)][1] = "randomize") =>
        LET pct == ops[Len(ops)][2]
        IN  /\ ret = <<"ok">>
            /\ pct < 1 => bitmap_buf = {}
            /\ pct >= 100 => bitmap_buf = 0..(BitMapMi(bitmap_n) - 1)
            /\ bitmap_buf \subseteq 0..(BitMapMi(bitmap_n) - 1)
            /\ bitmap_len = 4 * BitMapWc(bitmap_n)

\* randomize(100) filled a BitMap of two words that had been emptied
C21_Witness ==
    /\ pc = "bitmapops" /\ Len(ops) = 2
    /\ ops[1] = <<"randomize", 0>> /\ ops[2] = <<"randomize", 100>>
    /\ BitMapWc(bitmap_n) = 2
    /\ bitmap_buf = 0..(BitMapMi(bitmap_n) - 1)

----------------------------------------------------------------------------
(* Colours *)

\* uint8(val) of an integer
Uint8(val) == IF 0 <= val /\ val <= 255 THEN val ELSE IF val < 0 THEN 0 ELSE 255

\* the interpreters the library runs on; they differ in what a bytearray does
\* with a value over 255 and in the precision of a float
Builds == {"micropython", "cpython"}

\* the bits of a float's significand: CPython computes in IEEE double
\* precision, the MicroPython boards in single precision
FloatBits(build) == IF build = "cpython" THEN 53 ELSE 24

\* 2^i <= num / den, for an exponent i of either sign
ScaledLeq(i, num, den) ==
    IF i >= 0 THEN (2 ^ i) * den <= num ELSE den <= (2 ^ (-i)) * num

\* the binary exponent of the float num / den > 0
Exponent(num, den) ==
    CHOOSE i \in -8..8 : ScaledLeq(i, num, den) /\ ~ScaledLeq(i + 1, num, den)

IsPow2(v) == \E e \in 0..8 : v = 2 ^ e

\* 2^k mod den
RECURSIVE Pow2Mod(_, _)
Pow2Mod(k, den) ==
    IF k = 0 THEN 1 % den
    ELSE IF k % 2 = 0
         THEN LET h == Pow2Mod(k \div 2, den) IN (h * h) % den
    ELSE (2 * Pow2Mod(k - 1, den)) % den

\* int(c1 + d / den * mul) in the float arithmetic of the build, every
\* operation rounded to nearest even, for integers c1 in 0..255, d in
\* -255..255 and mul in 0..den with 0 <= c1 + d * mul / den <= 255.
\*   d / den is stored as (|d| * 2^k - r) / (den * 2^k) with a significand of
\* FloatBits bits, so the product is |d| * mul / den less r * mul / (den * 2^k).
\* That error can change the integer part only when d * mul / den is an
\* integer q: e2 counts the half units in the last place of q by which the
\* rounded product is smaller in magnitude than q, and the sum c1 + q keeps
\* that deficit unless rounding the sum absorbs it.
FloatTrunc(c1, d, den, mul, build) ==
    IF d = 0 \/ mul = 0 THEN c1
    ELSE IF (d * mul) % den # 0 THEN (c1 * den + d * mul) \div den
    ELSE LET q == (d * mul) \div den
             w == c1 + q
             ad == IF d < 0 THEN -d ELSE d
             aq == IF q < 0 THEN -q ELSE q
             i == Exponent(ad, den)
             rp == (ad * Pow2Mod(FloatBits(build) - 1 - i, den)) % den
             r == IF 2 * rp < den THEN rp ELSE rp - den
             jq == Exponent(aq, 1)
             num == (IF r < 0 THEN -r ELSE r) * mul
             dn == den * (2 ^ (jq - i))
             e2 == IF r = 0 THEN 0
                   ELSE IF r < 0 THEN (IF 2 * num > dn THEN -2 ELSE 0)
                   ELSE IF IsPow2(aq)
                        THEN (IF 4 * num <= dn THEN 0
                              ELSE IF 4 * num < 3 * dn THEN 1 ELSE 2)
                   ELSE IF 2 * num > dn THEN 2 ELSE 0
             below == (q > 0 /\ e2 > 0) \/ (q < 0 /\ e2 < 0)
             lw == IF IsPow2(w) THEN Exponent(w, 1) ELSE Exponent(w, 1) + 1
         IN  IF ~below \/ w = 0 THEN w
             ELSE IF (IF e2 < 0 THEN -e2 ELSE e2) * (2 ^ (jq + 1)) > 2 ^ lw
                  THEN w - 1
             ELSE w

\* blend that computes the quotient exactly
BlendExact(col1, col2, pct, build) ==
    IF 0 <= pct /\ pct <= 100
    THEN [i \in 1..3 |->
             IF i <= Len(col1)
             THEN Uint8((col1[i] * 100 + (col2[i] - col1[i]) * pct) \div 100)
             ELSE 0]
    ELSE col1

\* blend(col1, col2, pct) for colours of up to three channels in 0..255 and an
\* integer pct: uint8(col1[i] + (col2[i] - col1[i]) / 100 * pct) per channel
\* of a result that starts as [0, 0, 0]
Blend(col1, col2, pct, build) ==
    IF 0 <= pct /\ pct <= 100
    THEN [i \in 1..3 |->
             IF i <= Len(col1)
             THEN Uint8(FloatTrunc(col1[i], col2[i] - col1[i], 100, pct, build))
             ELSE 0]
    ELSE col1

\* colval(val, bpp) of an int: val.to_bytes(bpp, 'big'), and black for 0
ColValInt(val, bpp) == [k \in 1..bpp |-> (val \div (256 ^ (bpp - k))) % 256]

----------------------------------------------------------------------------
(* ByteMap *)

\* the record of a ByteMap buffer that starts at byte si
ByteMapRecord(bpi, buf, si) ==
    IF bpi > 1 THEN PySlice(buf, si, si + bpi) ELSE At(buf, si)

\* ByteMap.__getitem__(key) for an int key: <<"ok", record>> or <<"IndexError">>
ByteMapGetItem(n, bpi, buf, key) ==
    IF 0 <= key /\ key < n
    THEN <<"ok", ByteMapRecord(bpi, buf, key * bpi)>>
    ELSE IF -n < key /\ key < 0
    THEN <<"ok", ByteMapRecord(bpi, buf, (key + n) * bpi)>>
    ELSE <<"IndexError">>

\* ByteMap.__len__
ByteMapLen(n) == n

\* ByteMap.scroll that turns the same way whatever the sign of step
ByteMapScrollNoSign(bpi, buf, step) ==
    LET cut == bpi * (IF step < 0 THEN step ELSE -step)
    IN  PySliceFrom(buf, cut) \o PySliceTo(buf, cut)

\* ByteMap.scroll(step): the new buffer
ByteMapScroll(bpi, buf, step) ==
    LET cut == bpi * (-step)
    IN  PySliceFrom(buf, cut) \o PySliceTo(buf, cut)

\* the bytes a record of the ByteMap under test is filled with
ByteValues == {0, 200}

\* bm[key], the first call on the ByteMap under test
ByteMapGetItemCall(key) ==
    /\ pc = "bytemap" /\ ops = <<>>
    /\ ret' = ByteMapGetItem(bytemap_n, bytemap_bpi, bytemap_buf, key)
    /\ ops' = Append(ops, <<"getitem", key>>)
    /\ UNCHANGED <<bytemapVars, old>>
    /\ UNCHANGED <<frame, max_iterations, exc, trace, pc>>
    /\ UNCHANGED <<settings, fireVars, bitmapVars, ledsVars>>

\* ByteMap(n, bpi), then bm[i] = record for every i
ByteMapInit ==
    /\ pc = "bytemap" /\ frame = 0 /\ max_iterations = 0
    /\ exc = "none" /\ trace = <<>>
    /\ bytemap_n \in 1..MaxItems
    /\ bytemap_bpi \in {1, 3}
    /\ bytemap_buf \in [1..(bytemap_n * bytemap_bpi) -> ByteValues]
    /\ old = bytemap_buf /\ ops = <<>> /\ ret = <<"none">>
    /\ IdleSettings /\ IdleFire /\ IdleBitMap /\ IdleLeds

ByteMapNext ==
    \E key \in (-(bytemap_n + MaxOver))..(bytemap_n + MaxOver) :
        ByteMapGetItemCall(key)

SpecByteMap == ByteMapInit /\ [][ByteMapNext]_vars

\* C10 as claimed: a read of a ByteMap at any integer index i returns the
\* record stored at i mod n and never raises an index error.
C10_ReadWraps ==
    (Len(ops) = 1 /\ ops[1][1] = "getitem") =>
        ret = <<"ok", ByteMapRecord(bytemap_bpi, old,
                                    (ops[1][2] % bytemap_n) * bytemap_bpi)>>

----------------------------------------------------------------------------
(* ByteMap: writes, scrolls and the methods the class does not have *)

\* a value handed to the library is <<"int", v>> or <<"tuple", t>>
\* colval(val, bpp): black for 0, None and (), the big-endian bytes of an int,
\* anything else as it is
ColVal(val, bpp) ==
    IF val[1] = "int" THEN ColValInt(val[2], bpp)
    ELSE IF val[2] = <<>> THEN Repeated(0, bpp)
    ELSE val[2]

\* ByteMap.__setitem__ that appends at every key from n on
ByteMapSetItemAppendsPast(n, bpi, buf, key, val) ==
    LET value == ColVal(val, bpi)
        idx == key * bpi
    IN  IF 0 <= key /\ key < n
        THEN [n |-> n, buf |-> PySliceAssign(buf, idx, idx + bpi, value),
              ret |-> <<"ok">>]
        ELSE IF key >= n
        THEN [n |-> n + 1, buf |-> buf \o value, ret |-> <<"ok">>]
        ELSE [n |-> n, buf |-> buf, ret |-> <<"IndexError">>]

\* ByteMap.__setitem__(key, value): the new n and buffer, and <<"ok">> or
\* <<"IndexError">>
ByteMapSetItem(n, bpi, buf, key, val) ==
    LET value == ColVal(val, bpi)
        idx == key * bpi
    IN  IF 0 <= key /\ key < n
        THEN [n |-> n, buf |-> PySliceAssign(buf, idx, idx + bpi, value),
              ret |-> <<"ok">>]
        ELSE IF key = n
        THEN [n |-> n + 1, buf |-> buf \o value, ret |-> <<"ok">>]
        ELSE [n |-> n, buf |-> buf, ret |-> <<"IndexError">>]

\* the methods of class ByteMap
ByteMapMethods ==
    {"__init__", "__setitem__", "__getitem__", "__len__", "scroll", "fill",
     "fill_gradient"}

\* the values written to a ByteMap of records of bpi bytes
ByteMapWritten(bpi) ==
    IF bpi = 1 THEN {<<"int", 0>>, <<"int", 7>>}
    ELSE {<<"int", 0>>, <<"int", 13132850>>, <<"tuple", <<50, 200, 100>>>>}

\* bm[key] = val, the first call on the ByteMap under test
ByteMapSetItemCall(key, val) ==
    /\ pc = "bytemapops" /\ ops = <<>>
    /\ LET r == ByteMapSetItem(bytemap_n, bytemap_bpi, bytemap_buf, key, val)
       IN  /\ bytemap_n' = r.n
           /\ bytemap_buf' = r.buf
           /\ ret' = r.ret
    /\ ops' = Append(ops, <<"setitem", key, val>>)
    /\ UNCHANGED <<bytemap_bpi, old>>
    /\ UNCHANGED <<frame, max_iterations, exc, trace, pc>>
    /\ UNCHANGED <<settings, fireVars, bitmapVars, ledsVars>>

\* bm[key] after bm[key] = val did not raise
ByteMapReadBackCall ==
    /\ pc = "bytemapops" /\ Len(ops) = 1
    /\ ops[1][1] = "setitem" /\ ret = <<"ok">>
    /\ ret' = ByteMapGetItem(bytemap_n, bytemap_bpi, bytemap_buf, ops[1][2])
    /\ ops' = Append(ops, <<"getitem", ops[1][2]>>)
    /\ UNCHANGED <<bytemapVars, old>>
    /\ UNCHANGED <<frame, max_iterations, exc, trace, pc>>
    /\ UNCHANGED <<settings, fireVars, bitmapVars, ledsVars>>

\* bm.scroll(step), the first call on the ByteMap under test
ByteMapScrollCall(step) ==
    /\ pc = "bytemapops" /\ ops = <<>>
    /\ bytemap_buf' = ByteMapScroll(bytemap_bpi, bytemap_buf, step)
    /\ ops' = Append(ops, <<"scroll", step>>)
    /\ UNCHANGED <<bytemap_n, bytemap_bpi, old, ret>>
    /\ UNCHANGED <<frame, max_iterations, exc, trace, pc>>
    /\ UNCHANGED <<settings, fireVars, bitmapVars, ledsVars>>

\* bm.scroll(-step) after bm.scroll(step)
ByteMapScrollBackCall ==
    /\ pc = "bytemapops" /\ Len(ops) = 1 /\ ops[1][1] = "scroll"
    /\ bytemap_buf' = ByteMapScroll(bytemap_bpi, bytemap_buf, -ops[1][2])
    /\ ops' = Append(ops, <<"scroll", -ops[1][2]>>)
    /\ UNCHANGED <<bytemap_n, bytemap_bpi, old, ret>>
    /\ UNCHANGED <<frame, max_iterations, exc, trace, pc>>
    /\ UNCHANGED <<settings, fireVars, bitmapVars, ledsVars>>

\* bm.name(val) for a name that class ByteMap does not define (the test calls
\* bm.add, bm.sub, bm.mul and bm.div): the attribute lookup raises
ByteMapMissingCall(name, val) ==
    /\ pc = "bytemapops" /\ Len(ops) < 2
    /\ \A k \in 1..Len(ops) : ops[k][1] \notin ByteMapMethods \cup {"setitem"}
    /\ name \notin ByteMapMethods
    /\ ret' = <<"AttributeError">>
    /\ ops' = Append(ops, <<name, val>>)
    /\ UNCHANGED <<bytemapVars, old>>
    /\ UNCHANGED <<frame, max_iterations, exc, trace, pc>>
    /\ UNCHANGED <<settings, fireVars, bitmapVars, ledsVars>>

\* ByteMap(n, bpi), then bm[i] = record for every i
ByteMapOpsInit ==
    /\ pc = "bytemapops" /\ frame = 0 /\ max_iterations = 0
    /\ exc = "none" /\ trace = <<>>
    /\ bytemap_n \in 0..MaxItems
    /\ bytemap_bpi \in {1, 3}
    /\ bytemap_buf \in [1..(bytemap_n * bytemap_bpi) -> ByteValues]
    /\ old = bytemap_buf /\ ops = <<>> /\ ret = <<"none">>
    /\ IdleSettings /\ IdleFire /\ IdleBitMap /\ IdleLeds

ByteMapOpsNext ==
    \/ \E key \in (-MaxOver)..(bytemap_n + MaxOver) :
           \E val \in ByteMapWritten(bytemap_bpi) : ByteMapSetItemCall(key, val)
    \/ ByteMapReadBackCall
    \/ \E step \in (-(bytemap_n + MaxOver))..(bytemap_n + MaxOver) :
           ByteMapScrollCall(step)
    \/ ByteMapScrollBackCall
    \/ \E name \in {"add", "sub"} :
           \E val \in ByteMapWritten(bytemap_bpi) : ByteMapMissingCall(name, val)

SpecByteMapOps == ByteMapOpsInit /\ [][ByteMapOpsNext]_vars

\* the number of records of the ByteMap under test before the first call
ByteMapOldN == Len(old) \div bytemap_bpi

C12_ByteMapScrollRoundTrip ==
    (pc = "bytemapops" /\ Len(ops) = 2 /\ ops[1][1] = "scroll") =>
        /\ bytemap_buf = old
        /\ bytemap_n = ByteMapOldN

\* a scroll that changed the buffer was undone
C12_Witness ==
    /\ pc = "bytemapops" /\ Len(ops) = 2 /\ ops[1][1] = "scroll"
    /\ ByteMapScroll(bytemap_bpi, old, ops[1][2]) # old
    /\ bytemap_bpi = 3
    /\ bytemap_buf = old

\* what add and sub are claimed to add to channel c: a scalar, or the channel
\* of a tuple
Channel(val, c) == IF val[1] = "int" THEN val[2] ELSE val[2][c]

\* C13 as claimed: ByteMap has add and sub, which work on every channel of
\* every record, and add(v) followed by sub(v) restores every record when no
\* channel went over 255 in the add.
C13_AddSubRoundTrip ==
    (pc = "bytemapops" /\ Len(ops) >= 1 /\ ops[1][1] = "add") =>
        /\ ret # <<"AttributeError">>
        /\ (/\ Len(ops) = 2 /\ ops[2] = <<"sub", ops[1][2]>>
            /\ \A j \in 1..Len(old) :
                   old[j] + Channel(ops[1][2], ((j - 1) % bytemap_bpi) + 1)
                       <= 255)
               => bytemap_buf = old

----------------------------------------------------------------------------
(* TrickLED: the pixel buffer *)

\* bytes per pixel (NeoPixel's default, which TrickLED passes on)
Bpp == 3
REPEAT_MODE_STRIPE == 1
REPEAT_MODE_MIRROR == 2

Black == <<0, 0, 0>>

\* NeoPixel.ORDER: where the channels of a pixel lie in its bytes
Order == <<1, 0, 2>>

\* NeoPixel.__getitem__(i)
NeoPixelGet(buf, i) == [k \in 1..Bpp |-> At(buf, i * Bpp + Order[k])]

\* the bytes NeoPixel.__setitem__ stores for the colour v: byte ORDER[k] is v[k]
NeoPixelBytes(v) == [o \in 1..Bpp |-> v[CHOOSE k \in 1..Bpp : Order[k] = o - 1]]

\* NeoPixel.__setitem__(i, v): the new buffer
NeoPixelSet(buf, i, v) ==
    PySliceAssign(buf, i * Bpp, i * Bpp + Bpp, NeoPixelBytes(v))

\* TrickLED.__setitem__(i, val) with a colour tuple and 0 <= i < n
TrickLEDSetItem(buf, i, val) == NeoPixelSet(buf, i, val)

\* the buffer of a strip whose pixels were set to the colours of cols
StripOf(cols) ==
    LET RECURSIVE Fill(_, _)
        Fill(buf, i) ==
            IF i >= Len(cols) THEN buf
            ELSE Fill(TrickLEDSetItem(buf, i, cols[i + 1]), i + 1)
    IN  Fill(Repeated(0, Len(cols) * Bpp), 0)

\* the loop of blend_to_color from pixel i on
RECURSIVE BlendLoop(_, _, _, _, _, _, _, _)
BlendLoop(buf, i, end_pos, last_col, blend_col, color, pct, build) ==
    IF i > end_pos THEN buf
    ELSE IF NeoPixelGet(buf, i) = blend_col
         THEN BlendLoop(buf, i + 1, end_pos, last_col, blend_col, color, pct,
                        build)
    ELSE IF NeoPixelGet(buf, i) = last_col
         THEN BlendLoop(TrickLEDSetItem(buf, i, blend_col), i + 1, end_pos,
                        last_col, blend_col, color, pct, build)
    ELSE LET b == Blend(NeoPixelGet(buf, i), color, pct, build)
         IN  BlendLoop(TrickLEDSetItem(buf, i, b), i + 1, end_pos,
                       NeoPixelGet(buf, i), b, color, pct, build)

\* TrickLED.blend_to_color(color, pct, start_pos, end_pos): the new buffer
BlendToColor(buf, color, pct, start_pos, end_pos, build) ==
    BlendLoop(buf, start_pos, end_pos, Repeated(0, Bpp), Repeated(0, Bpp),
              color, pct, build)

\* the while loop of _repeat_stripe from byte loc on, and its last partial copy
RECURSIVE StripeLoop(_, _, _, _, _)
StripeLoop(buf, loc, jump, end, section) ==
    IF loc + jump <= end
    THEN StripeLoop(PySliceAssign(buf, loc, loc + jump, section),
                    loc + jump, jump, end, section)
    ELSE IF loc < end
    THEN PySliceAssign(buf, loc, end, PySliceTo(section, end - loc))
    ELSE buf

\* _repeat_stripe without the copy of the partial last section
RECURSIVE StripeLoopWhole(_, _, _, _, _)
StripeLoopWhole(buf, loc, jump, end, section) ==
    IF loc + jump <= end
    THEN StripeLoopWhole(PySliceAssign(buf, loc, loc + jump, section),
                         loc + jump, jump, end, section)
    ELSE buf
RepeatStripeWhole(n, buf, r) ==
    StripeLoopWhole(buf, r * Bpp, r * Bpp, n * Bpp, PySlice(buf, 0, r * Bpp))

\* TrickLED._repeat_stripe(r) on a strip of n pixels: the new buffer
RepeatStripe(n, buf, r) ==
    StripeLoop(buf, r * Bpp, r * Bpp, n * Bpp, PySlice(buf, 0, r * Bpp))

\* the for loop of _repeat_mirror from pixel i on
RECURSIVE MirrorLoop(_, _, _, _, _, _)
MirrorLoop(buf, i, n, r, rl, d) ==
    IF i >= n THEN buf
    ELSE LET set == NeoPixelSet(buf, i, NeoPixelGet(buf, rl))
         IN  IF 0 < rl /\ rl < r THEN MirrorLoop(set, i + 1, n, r, rl + 1 * d, d)
             ELSE IF rl = 0 THEN MirrorLoop(set, i + 1, n, r, rl, 1)
             ELSE MirrorLoop(set, i + 1, n, r, rl, -1)

\* TrickLED._repeat_mirror(r) on a strip of n pixels: the new buffer
RepeatMirror(n, buf, r) == MirrorLoop(buf, r, n, r, r - 1, -1)

\* the buffer TrickLED.write() hands to NeoPixel.write()
TrickLEDWrite(n, buf, r, mode) ==
    IF r # 0
    THEN IF mode = REPEAT_MODE_STRIPE THEN RepeatStripe(n, buf, r)
         ELSE IF mode = REPEAT_MODE_MIRROR THEN RepeatMirror(n, buf, r)
         ELSE buf
    ELSE buf

\* the colours the pixels of a strip under test start with
PixelColors == {Black, <<200, 100, 50>>, <<50, 200, 100>>}

\* leds.write(), the first call on the strip under test
LedsWriteCall ==
    /\ pc = "leds" /\ ops = <<>>
    /\ leds_buf' = TrickLEDWrite(leds_n, leds_buf, repeat_n, repeat_mode)
    /\ ops' = Append(ops, <<"write">>)
    /\ UNCHANGED <<leds_n, repeat_n, repeat_mode, old, ret>>
    /\ UNCHANGED <<frame, max_iterations, exc, trace, pc>>
    /\ UNCHANGED <<settings, fireVars, bitmapVars, bytemapVars>>

\* TrickLED(pin, n, repeat_n, repeat_mode), then leds[i] = colour for every i
RepeatInit ==
    /\ pc = "leds" /\ frame = 0 /\ max_iterations = 0
    /\ exc = "none" /\ trace = <<>>
    /\ leds_n \in 1..MaxLeds
    /\ repeat_n \in 0..leds_n
    /\ repeat_mode \in {REPEAT_MODE_STRIPE, REPEAT_MODE_MIRROR}
    /\ \E cols \in [1..leds_n -> PixelColors] : leds_buf = StripOf(cols)
    /\ old = leds_buf /\ ops = <<>> /\ ret = <<"none">>
    /\ IdleSettings /\ IdleFire /\ IdleBitMap /\ IdleByteMap

RepeatNext == LedsWriteCall

SpecRepeat == RepeatInit /\ [][RepeatNext]_vars

\* the colours blend_to_color is called with, and the percentages
BlendPixelColors == {Black, <<200, 100, 50>>, <<125, 150, 75>>}
BlendColors == {<<50, 200, 100>>}
BlendPcts == {0, 50, 100}

\* leds.blend_to_color(color, pct, start_pos, end_pos), the first call on the
\* strip under test; end_pos = n - 1 is also what end_pos = None stands for
LedsBlendCall(color, pct, start_pos, end_pos) ==
    /\ pc = "leds" /\ ops = <<>>
    /\ \E build \in Builds :
           /\ leds_buf' = BlendToColor(leds_buf, color, pct, start_pos,
                                       end_pos, build)
           /\ ops' = Append(ops, <<"blend_to_color", color, pct, start_pos,
                                   end_pos, build>>)
    /\ UNCHANGED <<leds_n, repeat_n, repeat_mode, old, ret>>
    /\ UNCHANGED <<frame, max_iterations, exc, trace, pc>>
    /\ UNCHANGED <<settings, fireVars, bitmapVars, bytemapVars>>

\* TrickLED(pin, n), then leds[i] = colour for every i
BlendInit ==
    /\ pc = "leds" /\ frame = 0 /\ max_iterations = 0
    /\ exc = "none" /\ trace = <<>>
    /\ leds_n \in 1..MaxBlendLeds
    /\ repeat_n = 0 /\ repeat_mode = REPEAT_MODE_STRIPE
    /\ \E cols \in [1..leds_n -> BlendPixelColors] : leds_buf = StripOf(cols)
    /\ old = leds_buf /\ ops = <<>> /\ ret = <<"none">>
    /\ IdleSettings /\ IdleFire /\ IdleBitMap /\ IdleByteMap

BlendNext ==
    \E color \in BlendColors, pct \in BlendPcts :
        \E start_pos \in 0..(leds_n - 1) :
            \E end_pos \in start_pos..(leds_n - 1) :
                LedsBlendCall(color, pct, start_pos, end_pos)

SpecBlend == BlendInit /\ [][BlendNext]_vars

\* C7 as claimed: after blend_to_color(color, pct, start_pos, end_pos), 0 <= pct
\* <= 100, every pixel of the range is blend(p, color, pct) of the pixel p it
\* was, black pixels and pixels equal to an earlier blend result included, and
\* the pixels outside the range are unchanged.
C7_BlendEveryPixel ==
    (Len(ops) = 1 /\ ops[1][1] = "blend_to_color") =>
        \A i \in 0..(leds_n - 1) :
            NeoPixelGet(leds_buf, i) =
                IF ops[1][4] <= i /\ i <= ops[1][5]
                THEN Blend(NeoPixelGet(old, i), ops[1][2], ops[1][3],
                           ops[1][6])
                ELSE NeoPixelGet(old, i)

\* C8 as claimed: with repeat_n = r >= 1 and mirror mode, after write() pixel
\* i >= r is head[i mod r] when floor(i / r) is even and head[r - 1 - (i mod r)]
\* when it is odd, and the first r pixels are unchanged.
C8_MirrorPingPong ==
    (Len(ops) = 1 /\ ops[1][1] = "write" /\ repeat_n >= 1
        /\ repeat_mode = REPEAT_MODE_MIRROR) =>
        \A i \in 0..(leds_n - 1) :
            NeoPixelGet(leds_buf, i) =
                IF (i \div repeat_n) % 2 = 0
                THEN NeoPixelGet(old, i % repeat_n)
                ELSE NeoPixelGet(old, repeat_n - 1 - (i % repeat_n))

\* C9: with repeat_n = r >= 1 and stripe mode, after write() every pixel i is
\* the pixel that was at i mod r, the partial last tile included, and the
\* first r pixels are unchanged.
C9_StripeTiles ==
    (Len(ops) = 1 /\ ops[1][1] = "write" /\ repeat_n >= 1
        /\ repeat_mode = REPEAT_MODE_STRIPE) =>
        /\ Len(leds_buf) = leds_n * Bpp
        /\ \A i \in 0..(leds_n - 1) :
               NeoPixelGet(leds_buf, i) = NeoPixelGet(old, i % repeat_n)

\* a strip of 5 written with a head of 2 different pixels: two whole tiles and
\* a partial one, over a tail that held something else
C9_Witness ==
    /\ Len(ops) = 1 /\ ops[1][1] = "write"
    /\ repeat_mode = REPEAT_MODE_STRIPE /\ repeat_n = 2 /\ leds_n = 5
    /\ NeoPixelGet(old, 0) # NeoPixelGet(old, 1)
    /\ NeoPixelGet(old, 4) # NeoPixelGet(old, 0)
    /\ NeoPixelGet(leds_buf, 4) = NeoPixelGet(old, 0)

----------------------------------------------------------------------------
(* TrickLED.adjust *)

\* adjust accepts the shifts -AdjustLimit..AdjustLimit
AdjustLimit == 7

\* shift_bits(val, shift) of an int
ShiftBitsInt(val, shift) ==
    IF shift > 0 THEN val * (2 ^ shift)
    ELSE IF shift < 0 THEN val \div (2 ^ (-shift))
    ELSE val

\* NeoPixel.__setitem__(i, v) on CPython when a channel of v is over 255: the
\* channels before the first such channel are stored, then the store raises
NeoPixelSetRaising(buf, i, v) ==
    LET bad == CHOOSE k \in 1..Bpp :
                   v[k] > 255 /\ \A j \in 1..(k - 1) : v[j] <= 255
    IN  [j \in 1..Len(buf) |->
            IF \E k \in 1..(bad - 1) : j = i * Bpp + Order[k] + 1
            THEN v[CHOOSE k \in 1..(bad - 1) : j = i * Bpp + Order[k] + 1]
            ELSE buf[j]]

\* the for loop of adjust from pixel i on: the new buffer and <<"ok">> or
\* <<"ValueError">>
RECURSIVE AdjustLoop(_, _, _, _, _)
AdjustLoop(buf, i, end_pos, shift, build) ==
    IF i > end_pos THEN [buf |-> buf, ret |-> <<"ok">>]
    ELSE LET val == [k \in 1..Bpp |->
                        ShiftBitsInt(NeoPixelGet(buf, i)[k], shift)]
         IN  IF \A k \in 1..Bpp : val[k] <= 255
             THEN AdjustLoop(TrickLEDSetItem(buf, i, val), i + 1, end_pos,
                             shift, build)
             ELSE IF build = "micropython"
             THEN AdjustLoop(TrickLEDSetItem(buf, i,
                                 [k \in 1..Bpp |-> val[k] % 256]),
                             i + 1, end_pos, shift, build)
             ELSE [buf |-> NeoPixelSetRaising(buf, i, val),
                   ret |-> <<"ValueError">>]

\* adjust without the check of shift
AdjustUnchecked(n, buf, shift, start_pos, end_pos, build) ==
    AdjustLoop(buf, start_pos, IF end_pos >= n THEN n - 1 ELSE end_pos,
               shift, build)

\* TrickLED.adjust(shift, start_pos, end_pos) on a strip of n pixels
Adjust(n, buf, shift, start_pos, end_pos, build) ==
    IF shift < -AdjustLimit \/ shift > AdjustLimit
    THEN [buf |-> buf, ret |-> <<"ValueError">>]
    ELSE AdjustLoop(buf, start_pos, IF end_pos >= n THEN n - 1 ELSE end_pos,
                    shift, build)

\* the colours of the pixels of a strip that is adjusted
AdjustPixelColors == {Black, <<1, 2, 3>>, <<200, 100, 50>>, <<255, 0, 127>>}

\* leds.adjust(shift, start_pos, end_pos), the first call on the strip under
\* test, on either interpreter
LedsAdjustCall(shift, start_pos, end_pos) ==
    /\ pc = "adjust" /\ ops = <<>>
    /\ \E build \in Builds :
           LET r == Adjust(leds_n, leds_buf, shift, start_pos, end_pos, build)
           IN  leds_buf' = r.buf /\ ret' = r.ret
    /\ ops' = Append(ops, <<"adjust", shift, start_pos, end_pos>>)
    /\ UNCHANGED <<leds_n, repeat_n, repeat_mode, old>>
    /\ UNCHANGED <<frame, max_iterations, exc, trace, pc>>
    /\ UNCHANGED <<settings, fireVars, bitmapVars, bytemapVars>>

\* TrickLED(pin, n), then leds[i] = colour for every i
AdjustInit ==
    /\ pc = "adjust" /\ frame = 0 /\ max_iterations = 0
    /\ exc = "none" /\ trace = <<>>
    /\ leds_n \in 1..MaxAdjustLeds
    /\ repeat_n = 0 /\ repeat_mode = REPEAT_MODE_STRIPE
    /\ \E cols \in [1..leds_n -> AdjustPixelColors] : leds_buf = StripOf(cols)
    /\ old = leds_buf /\ ops = <<>> /\ ret = <<"none">>
    /\ IdleSettings /\ IdleFire /\ IdleBitMap /\ IdleByteMap

AdjustNext ==
    \E shift \in (-(AdjustLimit + MaxShiftOver))..(AdjustLimit + MaxShiftOver) :
        \E start_pos \in 0..(leds_n - 1) :
            \E end_pos \in start_pos..leds_n :
                LedsAdjustCall(shift, start_pos, end_pos)

SpecAdjust == AdjustInit /\ [][AdjustNext]_vars

\* the last pixel adjust(shift, start_pos, end_pos) reaches
AdjustEnd == IF ops[1][4] >= leds_n THEN leds_n - 1 ELSE ops[1][4]

\* C14 as claimed: adjust(shift) with 1 <= shift <= 7 sets every channel of
\* every pixel of the range to min(255, old << shift) and does not fail, and
\* with -7 <= shift <= -1 sets it to old >> |shift|.
C14_AdjustSaturates ==
    (pc = "adjust" /\ Len(ops) = 1 /\ ops[1][2] # 0
        /\ -AdjustLimit <= ops[1][2] /\ ops[1][2] <= AdjustLimit) =>
        /\ ret = <<"ok">>
        /\ \A i \in ops[1][3]..AdjustEnd : \A k \in 1..Bpp :
               NeoPixelGet(leds_buf, i)[k] =
                   Min(255, ShiftBitsInt(NeoPixelGet(old, i)[k], ops[1][2]))

\* C15: adjust(shift) with shift < -7 or shift > 7 fails before any pixel is
\* changed, and adjust(0) succeeds and leaves every pixel as it was.
C15_AdjustRangeAndZero ==
    (pc = "adjust" /\ Len(ops) = 1) =>
        /\ (ops[1][2] < -AdjustLimit \/ ops[1][2] > AdjustLimit) =>
               (ret = <<"ValueError">> /\ leds_buf = old)
        /\ ops[1][2] = 0 => (ret = <<"ok">> /\ leds_buf = old)

\* adjust was called with a shift past the limit on a strip with a pixel that
\* is not black
C15_Witness ==
    /\ pc = "adjust" /\ Len(ops) = 1 /\ ops[1][2] = AdjustLimit + 1
    /\ ret = <<"ValueError">>
    /\ \E i \in 0..(leds_n - 1) : NeoPixelGet(old, i) # Black

----------------------------------------------------------------------------
(* LitBits *)

\* BitMap.__getitem__(i) for 0 <= i < n
BitMapGetItem(buf, i) == BitMapBit(buf, i)

\* the colour LitBits.calc_frame gives pixel i
LitBitsColor(i, lit, pal_n, pal) ==
    IF BitMapGetItem(lit, i) = 1
    THEN ByteMapGetItem(pal_n, Bpp, pal, i % ByteMapLen(pal_n))[2]
    ELSE ColValInt(0, Bpp)

\* the for loop of LitBits.calc_frame, self.leds[i] = col for i in
\* range(calc_n): the new strip (every pass writes a pixel of its own)
LitBitsRender(leds, calc_n, lit, pal_n, pal) ==
    [j \in 1..Len(leds) |->
        IF (j - 1) \div Bpp < calc_n
        THEN NeoPixelBytes(LitBitsColor((j - 1) \div Bpp, lit, pal_n, pal))
                 [((j - 1) % Bpp) + 1]
        ELSE leds[j]]

\* one pass of play's loop over LitBits with lit_percent unset: self.frame += 1,
\* calc_frame() (the strip, then palette.scroll and lit.scroll), leds.write()
LitBitsFrame ==
    /\ pc = "litbits" /\ frame < MaxLitFrames
    /\ frame' = frame + 1
    /\ leds_buf' = TrickLEDWrite(leds_n,
                        LitBitsRender(leds_buf, bitmap_n, bitmap_buf,
                                      bytemap_n, bytemap_buf),
                        repeat_n, repeat_mode)
    /\ bytemap_buf' = ByteMapScroll(bytemap_bpi, bytemap_buf,
                                    settings.scroll_speed)
    /\ bitmap_buf' = BitMapScroll(bitmap_n, bitmap_buf,
                                  settings.lit_scroll_speed)
    /\ bitmap_len' = BitMapScrollLen(BitMapWc(bitmap_n), bitmap_len)
    /\ UNCHANGED <<pc, max_iterations, exc, trace, settings, bitmap_n, fireVars>>
    /\ UNCHANGED <<bytemap_n, bytemap_bpi, leds_n, repeat_n, repeat_mode>>
    /\ UNCHANGED callVars

\* the strip lengths LitBits is run on
LitSizes ==
    {n \in 1..(WordBits * MaxWc) : n <= MaxCalcN \/ n % WordBits = 0}

\* the palettes LitBits is run with: no entry is black
LitPalettes ==
    {<<200, 100, 50, 50, 200, 100>>,
     <<200, 100, 50, 50, 200, 100, 125, 150, 75>>}

\* LitBits(leds, scroll_speed, lit_scroll_speed, palette=...) on a strip with no
\* repeat section, its mask the constructor's lit.repeat(119) or set by the
\* caller to a run of the visible bits; then play's leds.fill(0) and setup()
LitBitsInit ==
    /\ pc = "litbits" /\ frame = 0 /\ max_iterations = 0
    /\ exc = "none" /\ trace = <<>>
    /\ leds_n \in LitSizes
    /\ leds_buf = Repeated(0, leds_n * Bpp)
    /\ repeat_n = 0 /\ repeat_mode = REPEAT_MODE_STRIPE
    /\ bitmap_n = leds_n
    /\ bitmap_len = BitMapBufLen(bitmap_n)
    /\ \/ bitmap_buf = BitMapRepeat(bitmap_n, 119)
       \/ \E a \in 0..(bitmap_n - 1), len \in 0..Min(MaxRun, bitmap_n) :
              bitmap_buf = Run(a, len, bitmap_n)
    /\ bytemap_bpi = Bpp
    /\ bytemap_buf \in LitPalettes
    /\ bytemap_n = Len(bytemap_buf) \div Bpp
    /\ settings \in [scroll_speed : {-1, 0, 1}, lit_scroll_speed : {-1, 1}]
    /\ IdleFire
    /\ IdleCall

LitBitsNext == LitBitsFrame

SpecLitBits == LitBitsInit /\ [][LitBitsNext]_vars

\* the pixels of the first n that are not black
LitSet(leds, n) == {i \in 0..(n - 1) : NeoPixelGet(leds, i) # Black}

\* C6 as claimed: from one frame of LitBits to the next the lit/unlit partition
\* of the pixels 0..calc_n-1 is rotated by exactly one position within
\* 0..calc_n-1 (in either direction), and every lit pixel i shows
\* palette[i mod len(palette)] of the palette as it stands at that frame.
C6_LitPartitionRotates ==
    [][(pc = "litbits" /\ frame >= 1 /\ frame' = frame + 1) =>
        /\ \/ LitSet(leds_buf', leds_n) = Rotate(LitSet(leds_buf, leds_n), 1, leds_n)
           \/ LitSet(leds_buf', leds_n) = Rotate(LitSet(leds_buf, leds_n), -1, leds_n)
        /\ \A i \in LitSet(leds_buf', leds_n) :
               NeoPixelGet(leds_buf', i) =
                   PySlice(bytemap_buf, (i % bytemap_n) * Bpp,
                           (i % bytemap_n) * Bpp + Bpp)]_vars

----------------------------------------------------------------------------
(* Fire *)

\* heat_color(temp)
HeatColor(temp) ==
    LET t192 == (temp * 191) \div 255
        heat_ramp == (t192 % 64) * 4
    IN  IF t192 < 64 THEN <<heat_ramp, 0, 0>>
        ELSE IF t192 < 128 THEN <<255, heat_ramp, 0>>
        ELSE <<255, 255, heat_ramp>>

\* the buffer of a palette of n heat colours; for n = 64 it is the palette
\* Fire.__init__ builds, palette[i] = heat_color(i * 4)
HeatPalette(n) ==
    [j \in 1..(n * Bpp) |->
        HeatColor(((j - 1) \div Bpp) * (256 \div n))[((j - 1) % Bpp) + 1]]

\* AnimationBase.calc_n
CalcN == IF repeat_n # 0 THEN repeat_n ELSE leds_n

\* the sum of a sequence of numbers
RECURSIVE Sum(_)
Sum(s) == IF s = <<>> THEN 0 ELSE Head(s) + Sum(Tail(s))

\* uint8 that rounds to the nearest integer
Uint8OfRounded(num, den) ==
    IF num < 0 THEN 0
    ELSE IF (2 * num + den) \div (2 * den) > 255 THEN 255
    ELSE (2 * num + den) \div (2 * den)

\* uint8(num / den) for den > 0
Uint8Of(num, den) ==
    IF num < 0 THEN 0 ELSE IF num \div den > 255 THEN 255 ELSE num \div den

\* ByteMap.__getitem__(slice(start, stop)) without a step; stop = 0 stands for
\* no stop as well, as in the code
ByteMapGetSlice(n, bpi, buf, start, stop) ==
    PySlice(buf, (IF start # 0 THEN start ELSE 0) * bpi,
                 (IF stop # 0 THEN stop ELSE n) * bpi)

\* the values getrandbits(8) and getrandbits(4) are drawn from in the model
SparkDraws == {31, 65, 255}
NibbleDraws == {0, 7, 8, 15}

\* the heat calc_frame gives a hotspot for the draw spark
SparkHeat(spark, sparking) ==
    IF spark <= sparking THEN 224 + (spark % 32)
    ELSE LET low == spark % 128
         IN  IF (low \div 64) % 2 = 1 THEN low ELSE low + 64

\* the window of setup around a hotspot: range(fp + bmin, fp + bmax)
BlendMin(scroll_speed) ==
    IF scroll_speed > 0 THEN 0 ELSE IF scroll_speed < 0 THEN -10 ELSE -5
BlendMax(scroll_speed) ==
    IF scroll_speed > 0 THEN 11 ELSE IF scroll_speed < 0 THEN 1 ELSE 6

\* the hotspot setup adds for section i with the draw nibble
ExtraFlashPoint(i, nibble, calc_n, hotspots) ==
    LET ip == (calc_n \div hotspots) * i + (nibble - 8)
    IN  IF ~(0 < ip /\ ip < calc_n) THEN Min(Max(ip, 0), calc_n - 1) ELSE ip

\* the palette_shift setup computes for a palette of len entries
PaletteShiftAlwaysZero(len) == 0
PaletteShift(len) == IF len >= 256 THEN 0 ELSE IF len >= 128 THEN 1 ELSE 2

\* the blend map setup computes: _blend_map[i] = 1 for every i of a window
\* that is on the strip and is not a hotspot
BlendMapWithHotspots(fps, calc_n, scroll_speed) ==
    {i \in 0..(calc_n - 1) :
        \E fp \in fps : fp + BlendMin(scroll_speed) <= i
                        /\ i < fp + BlendMax(scroll_speed)}
BlendMapOf(fps, calc_n, scroll_speed) ==
    {i \in 0..(calc_n - 1) :
        /\ i \notin fps
        /\ \E fp \in fps : fp + BlendMin(scroll_speed) <= i
                           /\ i < fp + BlendMax(scroll_speed)}

\* Fire.setup when the first hotspot is first
FireSetupWith(first) ==
    /\ \E nibble \in [1..(settings.hotspots - 1) -> NibbleDraws] :
           flash_points' = {first} \cup
               {ExtraFlashPoint(i, nibble[i], CalcN, settings.hotspots) :
                    i \in 1..(settings.hotspots - 1)}
    /\ bitmap_buf' = BlendMapOf(flash_points', CalcN, settings.scroll_speed)
    /\ bitmap_len' = BitMapRepeatLen(bitmap_n, {})
    /\ settings' = [settings EXCEPT !.palette_shift = PaletteShift(bytemap_n)]
    /\ pc' = "fire"
    /\ exc' = exc

\* Fire.setup, as play calls it
FireSetup ==
    /\ pc = "fire_created"
    /\ heat_map' = Repeated(0, Len(heat_map))
    /\ IF settings.scroll_speed > 0 THEN FireSetupWith(0)
       ELSE IF settings.scroll_speed < 0 THEN FireSetupWith(CalcN - 1)
       ELSE IF CalcN - 1 > 0
       THEN \E first \in 0..(CalcN - 2) : FireSetupWith(first)
       ELSE \* randrange(0, 0) raises ValueError
            /\ pc' = "failed" /\ exc' = "ValueError"
            /\ flash_points' = {}
            /\ UNCHANGED <<bitmap_buf, bitmap_len, settings>>
    /\ UNCHANGED <<frame, max_iterations, trace, bitmap_n, sparks>>
    /\ UNCHANGED <<bytemapVars, ledsVars, callVars, state, gens>>

\* the heat calc_frame computes for pixel i from the heat map hm of n items
FireCool(hm, n, i, mi, blend, fps, cooling) ==
    IF BitMapGetItem(blend, i) = 1
    THEN IF 0 < i /\ i < mi
         THEN Uint8Of(Sum(ByteMapGetSlice(n, 1, hm, i - 1, i + 2))
                          - 3 * cooling, 3)
         ELSE IF i = 0
         THEN Uint8Of(Sum(ByteMapGetSlice(n, 1, hm, 0, 2)) - 2 * cooling, 2)
         ELSE Uint8Of(Sum(ByteMapGetSlice(n, 1, hm, -2, 0)) - 2 * cooling, 2)
    ELSE IF i \in fps THEN Uint8Of(At(hm, i), 1)
    ELSE Uint8Of(At(hm, i) - cooling, 1)

\* the heat map after the sparks: heat_map[ip] = val for every hotspot
FireSparked(hm, heat) ==
    [j \in 1..Len(hm) |-> IF (j - 1) \in DOMAIN heat THEN heat[j - 1] ELSE hm[j]]

\* the heat map calc_frame computes from the heat map hm and the heat drawn
\* for the hotspots: the scroll, the sparks, then the new map of calc_n items
FireHeat(hm, scroll_speed, heat, calc_n, blend, fps, cooling) ==
    LET scrolled == IF scroll_speed # 0
                    THEN ByteMapScroll(1, hm, scroll_speed)
                    ELSE hm
        sparked == FireSparked(scrolled, heat)
    IN  [j \in 1..calc_n |->
            FireCool(sparked, Len(sparked), j - 1, calc_n - 1, blend, fps,
                     cooling)]

\* the pixels whose palette index is not an index of the palette
FireBadIndex(hm, calc_n, ps, pal_n) ==
    {i \in 0..(calc_n - 1) :
        ByteMapGetItem(pal_n, Bpp, bytemap_buf, At(hm, i) \div (2 ^ ps))[1]
            # "ok"}

\* the strip after self.leds[i] = self.palette[self.heat_map[i] >> ps] for the
\* pixels before stop
FireRender(leds, hm, stop, ps, pal_n, pal) ==
    [j \in 1..Len(leds) |->
        IF (j - 1) \div Bpp < stop
        THEN NeoPixelBytes(ByteMapGetItem(pal_n, Bpp, pal,
                               At(hm, (j - 1) \div Bpp) \div (2 ^ ps))[2])
                 [((j - 1) % Bpp) + 1]
        ELSE leds[j]]

\* one pass of play's loop over Fire: self.frame += 1, calc_frame(), and
\* leds.write() when calc_frame did not raise
FireFrame ==
    /\ pc = "fire" /\ frame < MaxFireFrames
    /\ frame' = frame + 1
    /\ \E draw \in [flash_points -> SparkDraws] :
        LET heat == [ip \in flash_points |->
                        SparkHeat(draw[ip], settings.sparking)]
            cooled == FireHeat(heat_map, settings.scroll_speed, heat, CalcN,
                               bitmap_buf, flash_points, settings.cooling)
            bad == FireBadIndex(cooled, CalcN, settings.palette_shift,
                                bytemap_n)
        IN  /\ sparks' = heat
            /\ heat_map' = cooled
            /\ IF bad = {}
               THEN /\ leds_buf' = TrickLEDWrite(leds_n,
                            FireRender(leds_buf, cooled, CalcN,
                                       settings.palette_shift, bytemap_n,
                                       bytemap_buf),
                            repeat_n, repeat_mode)
                    /\ UNCHANGED <<pc, exc>>
               ELSE /\ leds_buf' = FireRender(leds_buf, cooled,
                            CHOOSE i \in bad : \A k \in bad : i <= k,
                            settings.palette_shift, bytemap_n, bytemap_buf)
                    /\ pc' = "failed" /\ exc' = "IndexError"
    /\ UNCHANGED <<max_iterations, trace, settings, bitmapVars, bytemapVars>>
    /\ UNCHANGED <<leds_n, repeat_n, repeat_mode, flash_points, callVars>>
    /\ UNCHANGED <<state, gens>>

\* the strips Fire is run on
FireSizes == (1..MaxFireN) \cup {FireLongStrip}

\* Fire(leds, hotspots=..., scroll_speed=..., palette=...) on a strip whose
\* repeat section, when it has one, is two pixels long
FireInit ==
    /\ pc = "fire_created" /\ frame = 0 /\ max_iterations = 0
    /\ exc = "none" /\ trace = <<>>
    /\ leds_n \in FireSizes
    /\ leds_buf = Repeated(0, leds_n * Bpp)
    /\ repeat_n \in {r \in {0, 2} : r < leds_n}
    /\ repeat_mode = REPEAT_MODE_STRIPE
    /\ heat_map = Repeated(0, leds_n)
    /\ bitmap_n = CalcN /\ bitmap_buf = {}
    /\ bitmap_len = BitMapBufLen(bitmap_n)
    /\ bytemap_bpi = Bpp
    /\ bytemap_n \in {64, 128, 256}
    /\ bytemap_buf = HeatPalette(bytemap_n)
    /\ \E speed \in {-1, 0, 1}, hotspots \in {1, 2} :
           settings = [scroll_speed |-> speed, sparking |-> 64,
                       cooling |-> 15, hotspots |-> hotspots,
                       palette_shift |-> 0]
    /\ flash_points = {} /\ sparks = <<>>
    /\ state = <<>> /\ gens = <<>>
    /\ IdleCall

FireNext == FireSetup \/ FireFrame

SpecFire == FireInit /\ [][FireNext]_vars

\* C16: in Fire, after setup and after every frame, every value of the heat
\* map is in 0..255 and, for every pixel i of 0..calc_n-1, heat[i] >>
\* palette_shift is an index of the palette (which has at least 64 entries), so
\* that no frame fails on a palette index.
C16_FireHeatInRange ==
    /\ pc = "fire" =>
        /\ \A j \in 1..Len(heat_map) : heat_map[j] \in 0..255
        /\ Len(heat_map) >= CalcN
        /\ \A i \in 0..(CalcN - 1) :
               At(heat_map, i) \div (2 ^ settings.palette_shift)
                   \in 0..(bytemap_n - 1)
    /\ pc \in {"fire", "failed"} => exc # "IndexError"

\* a frame of Fire on a palette of 64 colours left a pixel at the heat 255
C16_Witness ==
    /\ pc = "fire" /\ frame >= 1 /\ bytemap_n = 64
    /\ \E i \in 0..(CalcN - 1) : At(heat_map, i) = 255

\* C17: in Fire every hotspot lies in 0..calc_n-1 and is not in the blend map,
\* and at the end of every calc_frame the heat at each hotspot is the value
\* drawn for it in that frame, in 224..255 (spark) or 64..127 (no spark).
C17_FireHotspots ==
    pc = "fire" =>
        /\ flash_points # {}
        /\ \A fp \in flash_points :
            /\ 0 <= fp /\ fp < CalcN
            /\ BitMapBit(bitmap_buf, fp) = 0
            /\ frame >= 1 =>
                /\ At(heat_map, fp) = sparks[fp]
                /\ sparks[fp] \in (224..255) \cup (64..127)

\* a frame of Fire with two hotspots, one that sparked and one that did not,
\* next to pixels that are blended
C17_Witness ==
    /\ pc = "fire" /\ frame >= 1 /\ settings.cooling > 0
    /\ \E a \in flash_points, b \in flash_points :
           /\ sparks[a] >= 224 /\ sparks[b] <= 127
           /\ At(heat_map, a) = sparks[a] /\ At(heat_map, b) = sparks[b]
    /\ \E i \in 0..(CalcN - 1) : BitMapBit(bitmap_buf, i) = 1

----------------------------------------------------------------------------
(* uint8, blend and color_wheel *)

\* ci of color_wheel without the division by 85
WheelRampUnscaled(val, pa, build) == Uint8(val * pa)

\* ci of color_wheel: ss = val / 85; ci = uint8(ss * pa)
WheelRamp(val, pa, build) == Uint8(FloatTrunc(0, val, 85, pa, build))

\* the arcs of color_wheel in the order blue, red, green
WheelArcShifted(hue, cd, ci) ==
    IF hue < 85 THEN <<ci, 0, cd>>
    ELSE IF hue < 170 THEN <<cd, ci, 0>>
    ELSE <<0, cd, ci>>

\* what color_wheel returns on the arc of hue
WheelArc(hue, cd, ci) ==
    IF hue < 85 THEN <<cd, ci, 0>>
    ELSE IF hue < 170 THEN <<0, cd, ci>>
    ELSE <<ci, 0, cd>>

\* color_wheel(hue, val) for an integer hue and val in 0..255
ColorWheel(hue, val, build) ==
    LET h == Uint8(hue) % 255
        ci == WheelRamp(val, h % 85, build)
        cd == Uint8(val) - ci
    IN  WheelArc(h, cd, ci)

\* the colours blend is applied to
BlendEnds ==
    {<<a, 255 - a, a>> : a \in 0..MaxChannel}
        \cup {<<200, 100, 50>>, <<50, 200, 100>>}
\* the percentages blend is applied with
BlendEndPcts == {-1, 0, 1, 50, 99, 100, 101}
\* the denominators of the values uint8 is applied to
Uint8Dens == {1, 4}

\* uint8(num / den)
Uint8Call ==
    /\ pc = "colours" /\ ops = <<>>
    /\ \E num \in (-MaxQuarters)..MaxQuarters, den \in Uint8Dens :
           /\ ret' = <<"ok", Uint8Of(num, den)>>
           /\ ops' = <<<<"uint8", num, den>>>>
    /\ UNCHANGED <<frame, max_iterations, exc, trace, pc, old>>
    /\ UNCHANGED <<settings, fireVars, bitmapVars, bytemapVars, ledsVars>>

\* blend(col1, col2, pct)
BlendCall ==
    /\ pc = "colours" /\ ops = <<>>
    /\ \E col1 \in BlendEnds, col2 \in BlendEnds, pct \in BlendEndPcts :
           \E build \in Builds :
               /\ ret' = <<"ok", Blend(col1, col2, pct, build)>>
               /\ ops' = <<<<"blend", col1, col2, pct, build>>>>
    /\ UNCHANGED <<frame, max_iterations, exc, trace, pc, old>>
    /\ UNCHANGED <<settings, fireVars, bitmapVars, bytemapVars, ledsVars>>

\* color_wheel(hue, val)
ColorWheelCall ==
    /\ pc = "colours" /\ ops = <<>>
    /\ \E hue \in (-1)..MaxHue, val \in 0..255, build \in Builds :
           /\ ret' = <<"ok", ColorWheel(hue, val, build)>>
           /\ ops' = <<<<"color_wheel", hue, val, build>>>>
    /\ UNCHANGED <<frame, max_iterations, exc, trace, pc, old>>
    /\ UNCHANGED <<settings, fireVars, bitmapVars, bytemapVars, ledsVars>>

\* the module is imported and nothing has been called
ColoursInit ==
    /\ pc = "colours" /\ frame = 0 /\ max_iterations = 0
    /\ exc = "none" /\ trace = <<>>
    /\ IdleCall
    /\ IdleSettings /\ IdleFire /\ IdleBitMap /\ IdleByteMap /\ IdleLeds

ColoursNext == Uint8Call \/ BlendCall \/ ColorWheelCall

SpecColours == ColoursInit /\ [][ColoursNext]_vars

\* C22: uint8(v) is an integer in 0..255: 0 when v < 0, 255 when v > 255, and
\* v truncated to an integer when 0 <= v <= 255 (v = num / den).
C22_Uint8Clamps ==
    (pc = "colours" /\ Len(ops) = 1 /\ ops[1][1] = "uint8") =>
        LET num == ops[1][2]
            den == ops[1][3]
            u == ret[2]
        IN  /\ ret[1] = "ok" /\ u \in 0..255
            /\ num < 0 => u = 0
            /\ num > 255 * den => u = 255
            /\ (0 <= num /\ num <= 255 * den) =>
                   (u * den <= num /\ num < (u + 1) * den)

\* uint8(100.75) gave 100
C22_Witness ==
    /\ pc = "colours" /\ ops = <<<<"uint8", 403, 4>>>>
    /\ ret = <<"ok", 100>>

\* C23 as claimed: blend(c1, c2, 0) = c1 and blend(c1, c2, 100) = c2; for pct
\* in 0..100 every channel of the result lies between the channels of c1 and
\* c2; for pct outside 0..100 the result is c1.
C23_BlendEndpoints ==
    (pc = "colours" /\ Len(ops) = 1 /\ ops[1][1] = "blend") =>
        LET c1 == ops[1][2]
            c2 == ops[1][3]
            pct == ops[1][4]
            r == ret[2]
        IN  /\ ret[1] = "ok" /\ Len(r) = Len(c1)
            /\ pct = 0 => r = c1
            /\ pct = 100 => r = c2
            /\ (0 <= pct /\ pct <= 100) =>
                   \A i \in 1..Len(c1) :
                       Min(c1[i], c2[i]) <= r[i] /\ r[i] <= Max(c1[i], c2[i])
            /\ (pct < 0 \/ pct > 100) => r = c1

\* C24: color_wheel(0, b) = (b, 0, 0), color_wheel(85, b) = (0, b, 0) and
\* color_wheel(170, b) = (0, 0, b) for every brightness b in 0..255.
C24_WheelPrimaries ==
    (pc = "colours" /\ Len(ops) = 1 /\ ops[1][1] = "color_wheel"
        /\ ops[1][3] \in 0..255) =>
        LET b == ops[1][3]
        IN  /\ ops[1][2] = 0 => ret = <<"ok", <<b, 0, 0>>>>
            /\ ops[1][2] = 85 => ret = <<"ok", <<0, b, 0>>>>
            /\ ops[1][2] = 170 => ret = <<"ok", <<0, 0, b>>>>

\* color_wheel(85, 200) gave green at 200
C24_Witness ==
    /\ pc = "colours" /\ Len(ops) = 1
    /\ ops[1][1] = "color_wheel" /\ ops[1][2] = 85 /\ ops[1][3] = 200
    /\ ret = <<"ok", <<0, 200, 0>>>>

\* C25 as claimed: color_wheel(pos, b) = color_wheel(pos mod 255, b) for every
\* integer pos >= 0, pos > 255 included, and every brightness b.
C25_WheelModulo ==
    (pc = "colours" /\ Len(ops) = 1 /\ ops[1][1] = "color_wheel"
        /\ ops[1][2] >= 0) =>
        ret = <<"ok", ColorWheel(ops[1][2] % 255, ops[1][3], ops[1][4])>>

\* the channel (1 = red, 2 = green, 3 = blue) that rises on arc a = 0, 1, 2 of
\* the wheel, the one that falls and the one that is off
Rising(a) == ((a + 1) % 3) + 1
Falling(a) == a + 1
Off(a) == ((a + 2) % 3) + 1

\* C26: for hue in 0..254 and b in 0..255 every channel of color_wheel(hue, b)
\* is in 0..b, the channel that is not of the arc of hue is 0 and the other
\* two sum to b; the rising one is 0 at the start of the arc and never goes
\* down along the arc.
C26_WheelArcs ==
    (pc = "colours" /\ Len(ops) = 1 /\ ops[1][1] = "color_wheel"
        /\ ops[1][2] \in 0..254 /\ ops[1][3] \in 0..255) =>
        LET hue == ops[1][2]
            b == ops[1][3]
            a == hue \div 85
            c == ret[2]
        IN  /\ ret[1] = "ok" /\ Len(c) = 3
            /\ \A i \in 1..3 : 0 <= c[i] /\ c[i] <= b
            /\ c[Off(a)] = 0
            /\ c[Rising(a)] + c[Falling(a)] = b
            /\ hue % 85 = 0 => c[Rising(a)] = 0
            /\ hue % 85 > 0 =>
                   ColorWheel(hue - 1, b, ops[1][4])[Rising(a)] <= c[Rising(a)]

\* color_wheel(42, 200) gave (102, 98, 0), half way from red to green
C26_Witness ==
    /\ pc = "colours" /\ Len(ops) = 1
    /\ ops[1][1] = "color_wheel" /\ ops[1][2] = 42 /\ ops[1][3] = 200
    /\ ret = <<"ok", <<102, 98, 0>>>>

----------------------------------------------------------------------------
(* generators.random_vivid and generators.random_pastel *)

\* the brightness random_vivid is made with, as its callers document it (1-10)
VividBrightness == 1..10

\* a | b of two naturals
RECURSIVE BitOr(_, _)
BitOr(a, b) ==
    IF a = 0 THEN b
    ELSE IF b = 0 THEN a
    ELSE Max(a % 2, b % 2) + 2 * BitOr(a \div 2, b \div 2)

\* val.to_bytes(n, 'big') as a tuple, 0 <= val < 256^n
ToBytesBig(val, n) == [j \in 1..n |-> (val \div (256 ^ (n - j))) % 256]

\* the table shifts of random_vivid
VividShifts == <<<<16, 8>>, <<8, 0>>, <<0, 16>>>>

\* random_vivid that shifts prime and second to the same byte
RandomVividOneByte(brightness, cov, prime) ==
    LET mv == brightness * 25
        second == mv - prime
        sh == At(VividShifts, cov)
    IN  ToBytesBig(BitOr(prime * (2 ^ sh[1]), second * (2 ^ sh[1])), 3)

\* what random_vivid(brightness) yields when randrange(0, 2) returns cov and
\* randrange(1, mv) returns prime
RandomVivid(brightness, cov, prime) ==
    LET mv == brightness * 25
        second == mv - prime
        sh == At(VividShifts, cov)
    IN  ToBytesBig(BitOr(prime * (2 ^ sh[1]), second * (2 ^ sh[2])), 3)

\* the bits of a byte, and the byte of the bits lo..lo+7 of a set of bits
ByteBits(v) == {b \in 0..7 : (v \div (2 ^ b)) % 2 = 1}
ByteOf(bits, lo) ==
    LET f[k \in 0..8] ==
            IF k = 0 THEN 0
            ELSE f[k - 1] + (IF lo + k - 1 \in bits THEN 2 ^ (k - 1) ELSE 0)
    IN  f[8]

\* mi of random_pastel after the first k entries of a mask of bytes, as the
\* set of its 1 bits: mi = (mi << 8) | mask[i]
RECURSIVE PastelMaskBits(_, _)
PastelMaskBits(mask, k) ==
    IF k = 0 THEN {}
    ELSE {b + 8 : b \in PastelMaskBits(mask, k - 1)} \cup ByteBits(mask[k])

\* bool(mask) for mask = None or a tuple
MaskGiven(mask) == mask[1] = "tuple" /\ mask[2] # <<>>

\* what next() of random_pastel(bpp, mask) does when getrandbits(bc) returns
\* the bits draw: the first one raises ValueError for a mask of another length,
\* every other one yields (getrandbits(bc) & mi).to_bytes(bpp, 'big') as a tuple
RandomPastel(bpp, mask, draw) ==
    IF MaskGiven(mask) /\ bpp # Len(mask[2]) THEN <<"ValueError">>
    ELSE LET mi == IF MaskGiven(mask) THEN PastelMaskBits(mask[2], bpp)
                   ELSE 0..(bpp * 8 - 1)
         IN  <<"ok", [j \in 1..bpp |-> ByteOf(draw \cap mi, 8 * (bpp - j))]>>

\* the masks and widths random_pastel is made with, and the bytes the draws
\* of getrandbits are made of
PastelMasks ==
    {<<"None">>} \cup
    {<<"tuple", m>> : m \in {<<>>, <<255, 0, 63>>, <<0, 0, 0>>, <<15, 240>>,
                             <<255, 255, 255, 255>>, <<1, 2, 4, 128>>}}
PastelBpps == {3, 4}
DrawBytes == {0, 85, 255}
PastelDraws(bpp) ==
    {UNION {{8 * (bpp - j) + b : b \in ByteBits(bytes[j])} : j \in 1..bpp} :
        bytes \in [1..bpp -> DrawBytes]}

\* the values of randrange(0, 2) and of randrange(1, mv)
VividCovs == 0..1
VividPrimes(brightness) == 1..(brightness * 25 - 1)

\* next(gen) for gen = random_vivid(brightness)
RandomVividNext ==
    /\ pc = "generators" /\ ops[1][1] = "random_vivid"
    /\ \E cov \in VividCovs, prime \in VividPrimes(ops[1][2]) :
           /\ ret' = <<"ok", RandomVivid(ops[1][2], cov, prime)>>
           /\ old' = <<cov, prime>>
    /\ UNCHANGED <<frame, max_iterations, exc, trace, pc, ops>>
    /\ UNCHANGED <<settings, fireVars, bitmapVars, bytemapVars, ledsVars>>

\* next(gen) for gen = random_pastel(bpp, mask); a generator that raised is
\* finished
RandomPastelNext ==
    /\ pc = "generators" /\ ops[1][1] = "random_pastel"
    /\ ret # <<"ValueError">>
    /\ \E draw \in PastelDraws(ops[1][2]) :
           /\ ret' = RandomPastel(ops[1][2], ops[1][3], draw)
           /\ old' = <<draw>>
    /\ UNCHANGED <<frame, max_iterations, exc, trace, pc, ops>>
    /\ UNCHANGED <<settings, fireVars, bitmapVars, bytemapVars, ledsVars>>

\* gen = random_vivid(brightness) or gen = random_pastel(bpp, mask): no line of
\* a generator runs before the first next()
GeneratorsInit ==
    /\ pc = "generators" /\ frame = 0 /\ max_iterations = 0
    /\ exc = "none" /\ trace = <<>>
    /\ \/ \E brightness \in VividBrightness :
              ops = <<<<"random_vivid", brightness>>>>
       \/ \E bpp \in PastelBpps, mask \in PastelMasks :
              ops = <<<<"random_pastel", bpp, mask>>>>
    /\ old = <<>> /\ ret = <<"none">>
    /\ IdleSettings /\ IdleFire /\ IdleBitMap /\ IdleByteMap /\ IdleLeds

GeneratorsNext == RandomVividNext \/ RandomPastelNext

SpecGenerators == GeneratorsInit /\ [][GeneratorsNext]_vars

\* C27: every colour random_vivid(brightness) yields, brightness in 1..10, has
\* exactly two nonzero channels, which sum to brightness * 25, the third
\* channel 0, and every channel in 0..255.
C27_VividTwoChannels ==
    (pc = "generators" /\ ops[1][1] = "random_vivid" /\ ret # <<"none">>) =>
        LET c == ret[2]
        IN  /\ ret[1] = "ok" /\ Len(c) = 3
            /\ \A i \in 1..3 : c[i] \in 0..255
            /\ Cardinality({i \in 1..3 : c[i] # 0}) = 2
            /\ c[1] + c[2] + c[3] = ops[1][2] * 25

\* random_vivid(10) yielded green and blue, 249 + 1
C27_Witness ==
    /\ pc = "generators" /\ ops = <<<<"random_vivid", 10>>>>
    /\ ret = <<"ok", <<0, 249, 1>>>>

\* C28 as claimed: with len(mask) = bpp every colour random_pastel(bpp, mask)
\* yields has bpp channels with no bit outside the mask of the channel; a mask
\* whose length differs from bpp makes the generator raise ValueError.
C28_PastelMasked ==
    (pc = "generators" /\ ops[1][1] = "random_pastel" /\ ret # <<"none">>
        /\ ops[1][3][1] = "tuple") =>
        LET bpp == ops[1][2]
            mask == ops[1][3][2]
        IN  IF Len(mask) = bpp
            THEN /\ ret[1] = "ok" /\ Len(ret[2]) = bpp
                 /\ \A i \in 1..bpp :
                        ByteBits(ret[2][i]) \subseteq ByteBits(mask[i])
            ELSE ret = <<"ValueError">>

\* C38 as claimed: for each of the three channels there is a draw of
\* random_vivid in which that channel is the zero one: each of the pairings
\* (p, s, 0), (0, p, s) and (s, 0, p) is yielded for some outcome of randrange.
C38_VividAllSectors ==
    (pc = "generators" /\ ops[1][1] = "random_vivid") =>
        \A k \in 1..3 :
            \E cov \in VividCovs, prime \in VividPrimes(ops[1][2]) :
                RandomVivid(ops[1][2], cov, prime)[k] = 0

----------------------------------------------------------------------------
(* BitMap.scroll(0) and ByteMap.scroll past the length *)

\* C29 as claimed: scroll(0) leaves the buffer of a BitMap of any number of
\* words byte for byte as it was.
C29_ScrollZeroNoOp ==
    (pc = "bitmapops" /\ Len(ops) = 1 /\ ops[1][1] = "scroll"
        /\ ops[1][2] = 0) =>
        /\ bitmap_buf = old
        /\ bitmap_len = BitMapBufLen(bitmap_n)

\* C30 as claimed: after scroll(step) the record at index (i + step) mod n is
\* the record that was at index i, for every i in 0..n-1 and every integer
\* step, |step| > n included.
C30_ByteMapScrollRotates ==
    (pc = "bytemapops" /\ Len(ops) = 1 /\ ops[1][1] = "scroll") =>
        /\ Len(bytemap_buf) = Len(old)
        /\ \A i \in 0..(bytemap_n - 1) :
               ByteMapRecord(bytemap_bpi, bytemap_buf,
                             ((i + ops[1][2]) % bytemap_n) * bytemap_bpi)
                   = ByteMapRecord(bytemap_bpi, old, i * bytemap_bpi)

----------------------------------------------------------------------------
(* ByteMap.fill_gradient and TrickLED.fill_gradient *)

\* uint8(v1[n] + inc[n] * i) per channel, inc = step_inc(v1, v2, steps)
GradientValue(v1, v2, steps, i, build) ==
    [c \in 1..Len(v1) |->
        Uint8(FloatTrunc(v1[c], v2[c] - v1[c], steps, i, build))]

\* end_pos as fill_gradient takes it: n - 1 for None (given as n) and for
\* every end_pos >= n
FillEnd(n, end_pos) == IF end_pos >= n THEN n - 1 ELSE end_pos

\* the loop of ByteMap.fill_gradient from step i on, then self[end_pos] = v2
RECURSIVE ByteMapGradientLoop(_, _, _, _, _, _, _, _, _)
ByteMapGradientLoop(n, bpi, buf, i, steps, start_pos, v1, v2, build) ==
    IF i >= steps
    THEN ByteMapSetItem(n, bpi, buf, start_pos + steps, <<"tuple", v2>>).buf
    ELSE ByteMapGradientLoop(n, bpi,
             ByteMapSetItem(n, bpi, buf, start_pos + i,
                 <<"tuple", GradientValue(v1, v2, steps, i, build)>>).buf,
             i + 1, steps, start_pos, v1, v2, build)

\* fill_gradient that treats a range of one record as a fill with v2
ByteMapFillGradientOne(n, bpi, buf, v1, v2, start_pos, end_pos, build) ==
    LET steps == FillEnd(n, end_pos) - start_pos
    IN  [buf |-> ByteMapGradientLoop(n, bpi, buf, 0, steps, start_pos,
                     ColVal(v1, bpi), ColVal(v2, bpi), build),
         ret |-> <<"ok">>]

\* ByteMap.fill_gradient(v1, v2, start_pos, end_pos): the new buffer, and
\* <<"ok">> or the <<"ZeroDivisionError">> of step_inc
ByteMapFillGradient(n, bpi, buf, v1, v2, start_pos, end_pos, build) ==
    LET steps == FillEnd(n, end_pos) - start_pos
    IN  IF steps = 0 THEN [buf |-> buf, ret |-> <<"ZeroDivisionError">>]
        ELSE [buf |-> ByteMapGradientLoop(n, bpi, buf, 0, steps, start_pos,
                          ColVal(v1, bpi), ColVal(v2, bpi), build),
              ret |-> <<"ok">>]

\* the loop of TrickLED.fill_gradient from step i on, then self[end_pos] = col2
RECURSIVE LedsGradientLoop(_, _, _, _, _, _, _)
LedsGradientLoop(buf, i, steps, start_pos, col1, col2, build) ==
    IF i >= steps THEN TrickLEDSetItem(buf, start_pos + steps, col2)
    ELSE LedsGradientLoop(
             TrickLEDSetItem(buf, start_pos + i,
                             GradientValue(col1, col2, steps, i, build)),
             i + 1, steps, start_pos, col1, col2, build)

\* TrickLED.fill_gradient(col1, col2, start_pos, end_pos)
LedsFillGradient(n, buf, col1, col2, start_pos, end_pos, build) ==
    LET steps == FillEnd(n, end_pos) - start_pos
    IN  IF steps = 0 THEN [buf |-> buf, ret |-> <<"ZeroDivisionError">>]
        ELSE [buf |-> LedsGradientLoop(buf, 0, steps, start_pos,
                          ColVal(col1, Bpp), ColVal(col2, Bpp), build),
              ret |-> <<"ok">>]

\* the colours of a gradient
FillColours ==
    {<<"int", 0>>, <<"tuple", <<200, 100, 50>>>>, <<"tuple", <<50, 200, 101>>>>}

\* bm.fill_gradient(v1, v2, start_pos, end_pos), the first call on the map
ByteMapFillGradientCall ==
    /\ pc = "fill" /\ ops = <<>>
    /\ \E v1 \in FillColours, v2 \in FillColours, build \in Builds :
       \E start_pos \in 0..(bytemap_n - 1), end_pos \in 0..bytemap_n :
           /\ start_pos <= FillEnd(bytemap_n, end_pos)
           /\ LET r == ByteMapFillGradient(bytemap_n, bytemap_bpi, bytemap_buf,
                           v1, v2, start_pos, end_pos, build)
              IN  bytemap_buf' = r.buf /\ ret' = r.ret
           /\ ops' = <<<<"ByteMap.fill_gradient", v1, v2, start_pos, end_pos,
                        build>>>>
    /\ UNCHANGED <<bytemap_n, bytemap_bpi, old>>
    /\ UNCHANGED <<frame, max_iterations, exc, trace, pc>>
    /\ UNCHANGED <<settings, fireVars, bitmapVars, ledsVars>>

\* leds.fill_gradient(col1, col2, start_pos, end_pos), the first call on the
\* strip
LedsFillGradientCall ==
    /\ pc = "fill" /\ ops = <<>>
    /\ \E col1 \in FillColours, col2 \in FillColours, build \in Builds :
       \E start_pos \in 0..(leds_n - 1), end_pos \in 0..leds_n :
           /\ start_pos <= FillEnd(leds_n, end_pos)
           /\ LET r == LedsFillGradient(leds_n, leds_buf, col1, col2,
                                        start_pos, end_pos, build)
              IN  leds_buf' = r.buf /\ ret' = r.ret
           /\ ops' = <<<<"TrickLED.fill_gradient", col1, col2, start_pos,
                        end_pos, build>>>>
    /\ UNCHANGED <<leds_n, repeat_n, repeat_mode, old>>
    /\ UNCHANGED <<frame, max_iterations, exc, trace, pc>>
    /\ UNCHANGED <<settings, fireVars, bitmapVars, bytemapVars>>

\* ByteMap(n) and TrickLED(pin, n), every record of both set to (7, 7, 7)
FillInit ==
    /\ pc = "fill" /\ frame = 0 /\ max_iterations = 0
    /\ exc = "none" /\ trace = <<>>
    /\ bytemap_n \in 1..MaxFillN /\ bytemap_bpi = 3
    /\ bytemap_buf = Repeated(7, bytemap_n * bytemap_bpi)
    /\ leds_n = bytemap_n /\ leds_buf = Repeated(7, leds_n * Bpp)
    /\ repeat_n = 0 /\ repeat_mode = REPEAT_MODE_STRIPE
    /\ old = leds_buf /\ ops = <<>> /\ ret = <<"none">>
    /\ IdleSettings /\ IdleFire /\ IdleBitMap

FillNext == ByteMapFillGradientCall \/ LedsFillGradientCall

SpecFill == FillInit /\ [][FillNext]_vars

\* C31: fill_gradient of a ByteMap and of a TrickLED over a range of one record
\* (start_pos = end_pos after end_pos is clamped) raises the division error of
\* step_inc and leaves the buffer as it was; over a longer range it returns.
C31_FillGradientOneRecord ==
    (pc = "fill" /\ Len(ops) = 1) =>
        IF ops[1][4] = FillEnd(leds_n, ops[1][5])
        THEN /\ ret = <<"ZeroDivisionError">>
             /\ bytemap_buf = old /\ leds_buf = old
        ELSE ret = <<"ok">>

\* fill_gradient failed on the last record of a buffer of several
C31_Witness ==
    /\ pc = "fill" /\ Len(ops) = 1 /\ leds_n >= 2
    /\ ops[1][4] = leds_n - 1 /\ ops[1][5] = leds_n
    /\ ret = <<"ZeroDivisionError">>
    /\ bytemap_buf = old /\ leds_buf = old

----------------------------------------------------------------------------
(* NextGen *)

\* TrickLED.scroll(step): the new buffer
TrickLEDScroll(buf, step) ==
    LET cut == Bpp * (-step)
    IN  PySliceFrom(buf, cut) \o PySliceTo(buf, cut)

\* the colours a colour generator of the model yields, in turn and again from
\* the first; none is black
GenColours == <<<<200, 100, 50>>, <<50, 200, 100>>, <<0, 0, 255>>>>

\* next(generator) of a generator that has yielded k colours
GenNext(k) == GenColours[(k % Len(GenColours)) + 1]

\* the loop of NextGen.setup from pixel i on, for a generator that has yielded
\* k colours: the strip and the colours yielded
RECURSIVE NextGenSeed(_, _, _, _, _)
NextGenSeed(buf, i, calc_n, blanks, k) ==
    IF i >= calc_n THEN [buf |-> buf, k |-> k]
    ELSE NextGenSeed(TrickLEDSetItem(buf, i, GenNext(k)), i + blanks + 1,
                     calc_n, blanks, k + 1)

\* calc_frame that takes a colour from the generator in every frame
NextGenInjectAlways(fr, blanks, k) == [col |-> GenNext(k), k |-> k + 1]

\* what calc_frame of frame fr sets pixel 0 to, and the colours yielded
NextGenInject(fr, blanks, k) ==
    IF blanks # 0
    THEN IF fr % (blanks + 1) = 0 THEN [col |-> GenNext(k), k |-> k + 1]
         ELSE [col |-> Black, k |-> k]
    ELSE [col |-> GenNext(k), k |-> k + 1]

\* play up to its loop: leds.fill(0), setup(), frame = 0
NextGenSetup ==
    /\ pc = "nextgen_created"
    /\ pc' = "nextgen" /\ frame' = 0
    /\ LET r == NextGenSeed(Repeated(0, leds_n * Bpp), 0, CalcN,
                            settings.blanks, gens[1])
       IN  leds_buf' = r.buf /\ gens' = <<r.k>> /\ old' = r.buf
    /\ UNCHANGED <<max_iterations, exc, trace, settings, ops, ret>>
    /\ UNCHANGED <<leds_n, repeat_n, repeat_mode, bitmapVars, bytemapVars>>
    /\ UNCHANGED <<heat_map, flash_points, sparks, state>>

\* one pass of play's loop over NextGen: self.frame += 1, calc_frame()
\* (scroll(1), then pixel 0), leds.write()
NextGenFrame ==
    /\ pc = "nextgen" /\ frame < MaxNextFrames
    /\ frame' = frame + 1
    /\ LET inj == NextGenInject(frame + 1, settings.blanks, gens[1])
       IN  /\ leds_buf' = TrickLEDWrite(leds_n,
                              TrickLEDSetItem(TrickLEDScroll(leds_buf, 1), 0,
                                              inj.col),
                              repeat_n, repeat_mode)
           /\ gens' = <<inj.k>>
    /\ old' = leds_buf
    /\ UNCHANGED <<pc, max_iterations, exc, trace, settings, ops, ret>>
    /\ UNCHANGED <<leds_n, repeat_n, repeat_mode, bitmapVars, bytemapVars>>
    /\ UNCHANGED <<heat_map, flash_points, sparks, state>>

\* NextGen(leds, generator, blanks) on a strip with or without a repeat
\* section, for a generator that has yielded any number of colours
NextGenInit ==
    /\ pc = "nextgen_created" /\ frame = 0 /\ max_iterations = 0
    /\ exc = "none" /\ trace = <<>>
    /\ leds_n \in 1..MaxNextN
    /\ leds_buf = Repeated(0, leds_n * Bpp)
    /\ repeat_n \in {r \in {0, 2, 3} : r < leds_n}
    /\ repeat_mode \in {REPEAT_MODE_STRIPE, REPEAT_MODE_MIRROR}
    /\ \E blanks \in 0..MaxBlanks : settings = [blanks |-> blanks]
    /\ gens \in {<<k>> : k \in 0..(Len(GenColours) - 1)}
    /\ state = <<>> /\ heat_map = <<>> /\ flash_points = {} /\ sparks = <<>>
    /\ IdleCall /\ IdleBitMap /\ IdleByteMap

NextGenNext == NextGenSetup \/ NextGenFrame

SpecNextGen == NextGenInit /\ [][NextGenNext]_vars

\* C32: in NextGen with blanks = b, after setup (frame 0) and after every
\* frame, pixel i, 1 <= i < calc_n, is what pixel i - 1 was before the frame,
\* and pixel i of 0..calc_n-1 is not black exactly when
\* (i - frame) mod (b + 1) = 0.
C32_NextGenSpacing ==
    pc = "nextgen" =>
        /\ frame >= 1 =>
               \A i \in 1..(CalcN - 1) :
                   NeoPixelGet(leds_buf, i) = NeoPixelGet(old, i - 1)
        /\ \A i \in 0..(CalcN - 1) :
               (NeoPixelGet(leds_buf, i) # Black)
                   <=> ((i - frame) % (settings.blanks + 1) = 0)

\* the seventh frame of NextGen with two blanks on five pixels: the colours
\* of setup have left the strip and pixels 1 and 4 are lit
C32_Witness ==
    /\ pc = "nextgen" /\ frame = 7 /\ settings.blanks = 2
    /\ leds_n = 5 /\ repeat_n = 0
    /\ NeoPixelGet(leds_buf, 1) # Black /\ NeoPixelGet(leds_buf, 4) # Black
    /\ NeoPixelGet(leds_buf, 0) = Black

----------------------------------------------------------------------------
(* SideSwipe *)

\* the colours a generator handed to SideSwipe may yield
SwipeColours == {Black, <<200, 100, 50>>, <<0, 0, 255>>}

\* calc_frame that keeps the direction at the ends
SideSwipeMoveNoFlip(st, calc_n, ngen) ==
    LET nloc == st.loc + st.direction
    IN  IF 0 <= nloc /\ nloc < calc_n THEN [st EXCEPT !.loc = nloc]
        ELSE [st EXCEPT !.cycle = @ + 1,
                        !.gen_idx = (st.cycle + 1) % ngen]

\* the state after calc_frame has set its pixel
SideSwipeMove(st, calc_n, ngen) ==
    LET nloc == st.loc + st.direction
    IN  IF 0 <= nloc /\ nloc < calc_n THEN [st EXCEPT !.loc = nloc]
        ELSE [st EXCEPT !.cycle = @ + 1,
                        !.gen_idx = (st.cycle + 1) % ngen,
                        !.direction = -st.direction]

\* play up to its loop: leds.fill(0), setup(), frame = 0
SideSwipeSetup ==
    /\ pc = "swipe_created"
    /\ pc' = "swipe" /\ frame' = 0
    /\ leds_buf' = Repeated(0, leds_n * Bpp) /\ old' = leds_buf'
    /\ state' = [cycle |-> 0, direction |-> 1, loc |-> 0, gen_idx |-> 0]
    /\ ret' = <<"none">>
    /\ UNCHANGED <<max_iterations, exc, trace, settings, ops, gens>>
    /\ UNCHANGED <<leds_n, repeat_n, repeat_mode, bitmapVars, bytemapVars>>
    /\ UNCHANGED <<heat_map, flash_points, sparks>>

\* one pass of play's loop over SideSwipe: self.frame += 1, calc_frame(),
\* leds.write(); ret is the colour that next(gen) yielded
SideSwipeFrame ==
    /\ pc = "swipe" /\ frame < MaxSwipeFrames
    /\ frame' = frame + 1
    /\ \E col \in SwipeColours :
           /\ leds_buf' = TrickLEDWrite(leds_n,
                              TrickLEDSetItem(leds_buf, state.loc, col),
                              repeat_n, repeat_mode)
           /\ ret' = <<"ok", col>>
    /\ gens' = [gens EXCEPT ![state.gen_idx + 1] = @ + 1]
    /\ state' = SideSwipeMove(state, CalcN, Len(gens))
    /\ old' = leds_buf
    /\ UNCHANGED <<pc, max_iterations, exc, trace, settings, ops>>
    /\ UNCHANGED <<leds_n, repeat_n, repeat_mode, bitmapVars, bytemapVars>>
    /\ UNCHANGED <<heat_map, flash_points, sparks>>

\* SideSwipe(leds, color_generators) on a strip with or without a repeat
\* section; gens counts the colours each generator has yielded
SideSwipeInit ==
    /\ pc = "swipe_created" /\ frame = 0 /\ max_iterations = 0
    /\ exc = "none" /\ trace = <<>>
    /\ leds_n \in 1..MaxSwipeN
    /\ leds_buf = Repeated(0, leds_n * Bpp)
    /\ repeat_n \in {r \in {0, 2, 3} : r < leds_n}
    /\ repeat_mode \in {REPEAT_MODE_STRIPE, REPEAT_MODE_MIRROR}
    /\ gens \in {Repeated(0, g) : g \in 1..MaxGens}
    /\ state = <<>> /\ heat_map = <<>> /\ flash_points = {} /\ sparks = <<>>
    /\ IdleSettings /\ IdleCall /\ IdleBitMap /\ IdleByteMap

SideSwipeNext == SideSwipeSetup \/ SideSwipeFrame

SpecSideSwipe == SideSwipeInit /\ [][SideSwipeNext]_vars

\* after setup and after every frame: 0 <= loc < calc_n, direction is 1 or
\* -1, gen_idx = cycle mod the number of generators, cycle = frame div calc_n
SideSwipeStateOk ==
    pc = "swipe" =>
        /\ 0 <= state.loc /\ state.loc < CalcN
        /\ state.direction \in {1, -1}
        /\ state.gen_idx = state.cycle % Len(gens)
        /\ state.cycle = frame \div CalcN

\* a frame bounces (cycle + 1, direction flipped, generator changed to
\* cycle mod the number of generators) exactly when its number is a multiple
\* of calc_n, and otherwise keeps all three
SideSwipeBounceOk ==
    (pc = "swipe" /\ frame' = frame + 1) =>
        IF frame' % CalcN = 0
        THEN /\ state'.cycle = state.cycle + 1
             /\ state'.direction = -state.direction
             /\ state'.gen_idx = state'.cycle % Len(gens)
        ELSE /\ state'.cycle = state.cycle
             /\ state'.direction = state.direction
             /\ state'.gen_idx = state.gen_idx

\* a frame sets the pixel at loc to the colour of the generator and leaves
\* every other pixel below limit as it was
SideSwipeOnePixel(limit) ==
    (pc = "swipe" /\ frame' = frame + 1) =>
        /\ NeoPixelGet(leds_buf', state.loc) = ret'[2]
        /\ \A i \in 0..(limit - 1) :
               i # state.loc =>
                   NeoPixelGet(leds_buf', i) = NeoPixelGet(leds_buf, i)

----------------------------------------------------------------------------
(* Jitter *)

\* the colours the generator handed to Jitter may yield
JitterColours == {<<12, 10, 5>>, <<30, 0, 10>>}

\* the values of getrandbits(8) the model draws: the last below and the first
\* not below the default sparking of 25
RandByteDraws == {24, 25}

\* the settings Jitter is created with: fade_percent, background and
\* fill_mode; sparking and lit_percent at their defaults
JitterSettings ==
    [fade_percent : {40, 100}, sparking : {25},
     background : {657930}, lit_percent : {15},
     fill_mode : {"solid", "multi"}]

\* the strip after the loops of calc_frame have given pixel i of
\* 0..calc_n-1 the colour col[i]
JitterRender(leds, calc_n, col) ==
    [j \in 1..Len(leds) |->
        IF (j - 1) \div Bpp < calc_n
        THEN NeoPixelBytes(col[(j - 1) \div Bpp])[((j - 1) % Bpp) + 1]
        ELSE leds[j]]

\* the colour of pixel i after a sparking frame: spark is the first colour of
\* the generator, each[i] the one drawn for pixel i in fill_mode multi
JitterSparking(i, lit, leds, st, spark, each, build) ==
    IF BitMapGetItem(lit, i) = 1
    THEN IF st.fill_mode = "solid" THEN spark ELSE each[i]
    ELSE IF NeoPixelGet(leds, i) # st.background
         THEN Blend(NeoPixelGet(leds, i), st.background, st.fade_percent,
                    build)
         ELSE NeoPixelGet(leds, i)

\* the colour of pixel i after a frame that does not spark
JitterFading(i, lit, leds, st, build) ==
    IF BitMapGetItem(lit, i) = 1
    THEN Blend(NeoPixelGet(leds, i), st.background, st.fade_percent, build)
    ELSE st.background

\* play up to its loop: leds.fill(0), setup() (lit.pct, the background as a
\* colour), frame = 0
JitterSetup ==
    /\ pc = "jitter_created"
    /\ pc' = "jitter" /\ frame' = 0
    /\ leds_buf' = Repeated(0, leds_n * Bpp) /\ old' = leds_buf'
    /\ settings' = [settings EXCEPT
                        !.background = ColValInt(settings.background, Bpp)]
    /\ ret' = <<"none">>
    /\ UNCHANGED <<max_iterations, exc, trace, ops, state, gens>>
    /\ UNCHANGED <<leds_n, repeat_n, repeat_mode, bitmapVars, bytemapVars>>
    /\ UNCHANGED <<heat_map, flash_points, sparks>>

\* one pass of play's loop over Jitter: self.frame += 1, calc_frame(),
\* leds.write(); ret is the byte rv that getrandbits(8) returned
JitterFrame ==
    /\ pc = "jitter"
    /\ frame' = (frame % JitterFrameWrap) + 1
    /\ \/ \E rv \in {r \in RandByteDraws : ~(r < settings.sparking)} :
              /\ ret' = <<"ok", rv>>
              /\ leds_buf' = TrickLEDWrite(leds_n,
                     JitterRender(leds_buf, CalcN,
                         [i \in 0..(CalcN - 1) |->
                             JitterFading(i, bitmap_buf, leds_buf,
                                          settings, state.build)]),
                     repeat_n, repeat_mode)
              /\ UNCHANGED <<bitmap_buf, bitmap_len>>
       \/ \E rv \in {r \in RandByteDraws : r < settings.sparking},
              words \in [0..(BitMapWc(bitmap_n) - 1) ->
                            Rand32(settings.lit_percent)],
              spark \in JitterColours,
              each \in [0..(CalcN - 1) -> JitterColours] :
              /\ settings.fill_mode = "solid" =>
                     each = [i \in 0..(CalcN - 1) |-> spark]
              /\ ret' = <<"ok", rv>>
              /\ bitmap_buf' = BitMapRandomize(bitmap_n, words)
              /\ bitmap_len' = BitMapRandomizeLen(bitmap_n)
              /\ leds_buf' = TrickLEDWrite(leds_n,
                     JitterRender(leds_buf, CalcN,
                         [i \in 0..(CalcN - 1) |->
                             JitterSparking(i,
                                 BitMapRandomize(bitmap_n, words), leds_buf,
                                 settings, spark, each, state.build)]),
                     repeat_n, repeat_mode)
    /\ old' = leds_buf
    /\ UNCHANGED <<pc, max_iterations, exc, trace, settings, ops, state, gens>>
    /\ UNCHANGED <<leds_n, repeat_n, repeat_mode, bitmap_n, bytemapVars>>
    /\ UNCHANGED <<heat_map, flash_points, sparks>>

\* Jitter(leds, fade_percent, background, fill_mode, generator) on a strip
\* with or without a repeat section: lit is the constructor's repeat(119);
\* state.build is the interpreter the program runs on
JitterInit ==
    /\ pc = "jitter_created" /\ frame = 0 /\ max_iterations = 0
    /\ exc = "none" /\ trace = <<>>
    /\ leds_n \in 1..MaxJitterN
    /\ leds_buf = Repeated(0, leds_n * Bpp)
    /\ repeat_n \in {r \in {0, 1} : r < leds_n}
    /\ repeat_mode = REPEAT_MODE_STRIPE
    /\ bitmap_n = CalcN
    /\ bitmap_len = BitMapBufLen(bitmap_n)
    /\ bitmap_buf = BitMapRepeat(bitmap_n, 119)
    /\ settings \in JitterSettings
    /\ state \in [build : Builds]
    /\ gens = <<>> /\ heat_map = <<>> /\ flash_points = {} /\ sparks = <<>>
    /\ IdleCall /\ IdleByteMap

JitterNext == JitterSetup \/ JitterFrame

\* play(max_iterations=0) runs its loop for ever: every pass is followed by
\* the next
\* the step of the loop that every pass takes: self.frame += 1
JitterTick == pc = "jitter" /\ frame' = (frame % JitterFrameWrap) + 1

SpecJitter ==
    JitterInit /\ [][JitterNext]_vars /\ WF_vars(JitterSetup)
        /\ WF_frame(JitterTick)

\* the last frame did not spark
JitterNoSpark == pc = "jitter" /\ ret[1] = "ok" /\ ret[2] >= settings.sparking

\* every pixel of 0..calc_n-1 is the background colour
JitterAllBackground ==
    /\ pc = "jitter"
    /\ \A i \in 0..(CalcN - 1) : NeoPixelGet(leds_buf, i) = settings.background

\* C37 as stated: in Jitter with 0 < fade_percent <= 100, if from some frame
\* on no frame sparks, then every pixel of 0..calc_n-1 eventually equals the
\* background colour and stays equal to it.
C37_FadesToBackground == (<>[]JitterNoSpark) => (<>[]JitterAllBackground)

----------------------------------------------------------------------------
(* Convergent and Divergent *)

\* self.state['insert_points'] as setup computes it
InsertPoints(kind, calc_n) ==
    IF kind = "convergent" THEN <<0, calc_n - 1>>
    ELSE <<calc_n \div 2, (calc_n \div 2) + 1>>

\* for ip in insert_points: self.leds[ip] = color, from the k-th point on:
\* the strip, and the IndexError of TrickLED.__setitem__ for a point that is
\* not a pixel of the strip
RECURSIVE SeedPoints(_, _, _, _, _)
SeedPoints(leds, n, points, k, color) ==
    IF k > Len(points) THEN [leds |-> leds, exc |-> "none"]
    ELSE IF 0 <= points[k] /\ points[k] < n
         THEN SeedPoints(TrickLEDSetItem(leds, points[k], color), n, points,
                         k + 1, color)
    ELSE [leds |-> leds, exc |-> "IndexError"]

\* self.palette[idx]
PaletteColor(pal_n, pal, idx) == ByteMapGetItem(pal_n, Bpp, pal, idx)[2]

\* start_cycle: the state, the strip and the exception it ends with
StartCycle(st, n, pal_n, pal) ==
    LET idx == (st.palette_idx + 1) % ByteMapLen(pal_n)
        color == PaletteColor(pal_n, pal, idx)
        seeded == SeedPoints(Repeated(0, n * Bpp), n, st.insert_points, 1,
                             color)
    IN  [st |-> [st EXCEPT !.movers = st.insert_points,
                           !.palette_idx = idx,
                           !.color = color],
         leds |-> seeded.leds, exc |-> seeded.exc]

\* the direction the first mover of the list takes
FirstDir(kind) == IF kind = "convergent" THEN 1 ELSE -1

\* the loop of calc_frame that lets a mover stopped at an insertion point
\* re-seed rather than restart
RECURSIVE MoveLoopNoRestart(_, _, _, _, _, _)
MoveLoopNoRestart(kind, calc_n, points, movers, k, acc) ==
    IF k > Len(movers) THEN acc
    ELSE LET mv == movers[k]
             idir == IF k % 2 = 1 THEN FirstDir(kind) ELSE -FirstDir(kind)
             ni == mv + idir
         IN  MoveLoopNoRestart(kind, calc_n, points, movers, k + 1,
                 IF 0 <= ni /\ ni < calc_n
                 THEN IF NeoPixelGet(acc.leds, ni) = Black
                      THEN [acc EXCEPT
                               !.leds = TrickLEDSetItem(
                                   TrickLEDSetItem(acc.leds, ni,
                                       NeoPixelGet(acc.leds, mv)),
                                   mv, Black),
                               !.mvr = Append(acc.mvr, ni)]
                      ELSE [acc EXCEPT !.new_insert = TRUE]
                 ELSE IF kind = "convergent" THEN acc
                 ELSE [acc EXCEPT !.new_insert = TRUE])

\* the loop of calc_frame over self.state['movers'] from the k-th mover on;
\* acc holds the strip, mvr, new_insert and new_cycle
RECURSIVE MoveLoop(_, _, _, _, _, _)
MoveLoop(kind, calc_n, points, movers, k, acc) ==
    IF k > Len(movers) THEN acc
    ELSE LET mv == movers[k]
             idir == IF k % 2 = 1 THEN FirstDir(kind) ELSE -FirstDir(kind)
             ni == mv + idir
         IN  MoveLoop(kind, calc_n, points, movers, k + 1,
                 IF 0 <= ni /\ ni < calc_n
                 THEN IF NeoPixelGet(acc.leds, ni) = Black
                      THEN [acc EXCEPT
                               !.leds = TrickLEDSetItem(
                                   TrickLEDSetItem(acc.leds, ni,
                                       NeoPixelGet(acc.leds, mv)),
                                   mv, Black),
                               !.mvr = Append(acc.mvr, ni)]
                      ELSE IF \E j \in 1..Len(points) : points[j] = mv
                           THEN [acc EXCEPT !.new_cycle = TRUE]
                      ELSE [acc EXCEPT !.new_insert = TRUE]
                 ELSE IF kind = "convergent" THEN acc
                 ELSE [acc EXCEPT !.new_insert = TRUE])

\* calc_frame: the state, the strip, the exception it ends with and what it
\* did (a full restart, a re-seed of the insertion points, or moves only)
MoverCalcFrame(kind, st, leds, n, calc_n, fill_mode, pal_n, pal) ==
    LET r == MoveLoop(kind, calc_n, st.insert_points, st.movers, 1,
                      [leds |-> leds, mvr |-> <<>>, new_insert |-> FALSE,
                       new_cycle |-> FALSE])
    IN  IF r.new_cycle
        THEN LET c == StartCycle(st, n, pal_n, pal)
             IN  [st |-> c.st, leds |-> c.leds, exc |-> c.exc,
                  did |-> "start_cycle"]
        ELSE IF r.new_insert
        THEN LET idx == IF fill_mode = "multi"
                        THEN (st.palette_idx + 1) % ByteMapLen(pal_n)
                        ELSE st.palette_idx
                 color == IF fill_mode = "multi"
                          THEN PaletteColor(pal_n, pal, idx) ELSE st.color
                 seeded == SeedPoints(r.leds, n, st.insert_points, 1, color)
             IN  [st |-> IF seeded.exc = "none"
                         THEN [st EXCEPT !.palette_idx = idx,
                                         !.color = color,
                                         !.movers = st.insert_points]
                         ELSE [st EXCEPT !.palette_idx = idx,
                                         !.color = color],
                  leds |-> seeded.leds, exc |-> seeded.exc, did |-> "insert"]
        ELSE [st |-> [st EXCEPT !.movers = r.mvr], leds |-> r.leds,
              exc |-> "none", did |-> "move"]

\* play up to its loop: leds.fill(0), setup() (the insertion points,
\* palette_idx = 0, start_cycle()), frame = 0; pc names the class
MoverSetup ==
    /\ pc \in {"convergent_created", "divergent_created"}
    /\ LET kind == IF pc = "convergent_created" THEN "convergent"
                   ELSE "divergent"
           c == StartCycle([insert_points |-> InsertPoints(kind, CalcN),
                            palette_idx |-> 0, color |-> Black,
                            movers |-> <<>>],
                           leds_n, bytemap_n, bytemap_buf)
       IN  /\ pc' = kind
           /\ state' = c.st /\ leds_buf' = c.leds /\ exc' = c.exc
    /\ frame' = 0 /\ ret' = <<"ok", "setup">> /\ old' = leds_buf'
    /\ UNCHANGED <<max_iterations, trace, settings, ops, gens>>
    /\ UNCHANGED <<leds_n, repeat_n, repeat_mode, bitmapVars, bytemapVars>>
    /\ UNCHANGED <<heat_map, flash_points, sparks>>

\* one pass of play's loop over Convergent or Divergent: self.frame += 1,
\* calc_frame(), leds.write(); ret tells what calc_frame did
MoverFrame ==
    /\ pc \in {"convergent", "divergent"} /\ exc = "none"
    /\ frame' = (frame % MoverFrameWrap) + 1
    /\ LET r == MoverCalcFrame(pc, state, leds_buf, leds_n, CalcN,
                               settings.fill_mode, bytemap_n, bytemap_buf)
       IN  /\ state' = r.st /\ exc' = r.exc /\ ret' = <<"ok", r.did>>
           /\ leds_buf' = IF r.exc = "none"
                          THEN TrickLEDWrite(leds_n, r.leds, repeat_n,
                                             repeat_mode)
                          ELSE r.leds
    /\ old' = leds_buf
    /\ UNCHANGED <<pc, max_iterations, trace, settings, ops, gens>>
    /\ UNCHANGED <<leds_n, repeat_n, repeat_mode, bitmapVars, bytemapVars>>
    /\ UNCHANGED <<heat_map, flash_points, sparks>>

\* Convergent(leds, fill_mode, palette) or Divergent(leds, fill_mode, palette)
\* on a strip with or without a repeat section, with a palette of two or of
\* three colours, none black
MoverInit ==
    /\ pc \in {"convergent_created", "divergent_created"}
    /\ frame = 0 /\ max_iterations = 0 /\ exc = "none" /\ trace = <<>>
    /\ leds_n \in 1..MaxMoverN
    /\ leds_buf = Repeated(0, leds_n * Bpp)
    /\ repeat_n \in {r \in 0..MaxMoverN : r < leds_n}
    /\ repeat_mode \in {REPEAT_MODE_STRIPE, REPEAT_MODE_MIRROR}
    /\ bytemap_bpi = Bpp
    /\ bytemap_buf \in LitPalettes
    /\ bytemap_n = Len(bytemap_buf) \div Bpp
    /\ settings \in [fill_mode : {"solid", "multi"}]
    /\ state = <<>> /\ gens = <<>>
    /\ heat_map = <<>> /\ flash_points = {} /\ sparks = <<>>
    /\ IdleCall /\ IdleBitMap

MoverNext == MoverSetup \/ MoverFrame

\* the step of the loop that every pass takes: self.frame += 1
MoverTick ==
    /\ pc \in {"convergent", "divergent"} /\ exc = "none"
    /\ frame' = (frame % MoverFrameWrap) + 1

\* play(max_iterations=0) runs its loop for ever: every pass is followed by
\* the next
SpecMovers ==
    MoverInit /\ [][MoverNext]_vars /\ WF_vars(MoverSetup)
        /\ WF_frame(MoverTick)

\* Convergent or Divergent is set up
MoverRunning == pc \in {"convergent", "divergent"}

\* the insertion points and the movers are pixels of 0..calc_n-1
PointsInSection(points) ==
    \A k \in 1..Len(points) : 0 <= points[k] /\ points[k] < CalcN

\* in fill_mode solid every pixel of 0..calc_n-1 that is not black has the
\* colour of the cycle; every mover is a lit pixel of 0..calc_n-1
MoverStripOk ==
    MoverRunning =>
        /\ settings.fill_mode = "solid" =>
               \A i \in 0..(CalcN - 1) :
                   NeoPixelGet(leds_buf, i) # Black =>
                       NeoPixelGet(leds_buf, i) = state.color
        /\ PointsInSection(state.movers)
        /\ \A k \in 1..Len(state.movers) :
               NeoPixelGet(leds_buf, state.movers[k]) # Black

\* a frame that re-seeds keeps palette_idx in fill_mode solid and advances it
\* by one in fill_mode multi; a frame that restarts advances it by one and
\* leaves only the insertion points lit
MoverPaletteOk ==
    (MoverRunning /\ frame' # frame) =>
        /\ ret'[2] = "insert" =>
               state'.palette_idx =
                   IF settings.fill_mode = "solid" THEN state.palette_idx
                   ELSE (state.palette_idx + 1) % ByteMapLen(bytemap_n)
        /\ ret'[2] = "start_cycle" =>
               /\ state'.palette_idx =
                      (state.palette_idx + 1) % ByteMapLen(bytemap_n)
               /\ \A i \in 0..(CalcN - 1) :
                      NeoPixelGet(leds_buf', i) # Black =>
                          \E k \in 1..2 : state.insert_points[k] = i

\* C34 as stated: in Convergent and Divergent with a palette without black,
\* in fill_mode solid every non-black pixel of 0..calc_n-1 has the colour of
\* the cycle and a re-seed keeps palette_idx; in fill_mode multi a re-seed
\* advances palette_idx by one modulo len(palette); a full restart clears the
\* strip and advances palette_idx by one; every mover position is in
\* [0, calc_n) and lit.
C34_MoversAndPalette == [](MoverStripOk) /\ [][MoverPaletteOk]_vars

\* C35 as stated: for calc_n >= 2 the insertion points of Divergent are pixels
\* of [0, calc_n) and the number of pixels below the lower one and above the
\* upper one differ by at most one; those of Convergent are 0 and calc_n - 1.
C35_InsertPointsCentred ==
    (MoverRunning /\ CalcN >= 2) =>
        IF pc = "divergent"
        THEN /\ PointsInSection(state.insert_points)
             /\ LET below == state.insert_points[1]
                    above == CalcN - 1 - state.insert_points[2]
                IN  below - above \in {-1, 0, 1}
        ELSE state.insert_points = <<0, CalcN - 1>>

\* C34 for the strips on which the insertion points of Divergent are pixels of
\* the section
MoversAndPaletteFrom3 ==
    /\ []((CalcN >= 3 \/ pc = "convergent") => MoverStripOk)
    /\ [][(CalcN >= 3 \/ pc = "convergent") => MoverPaletteOk]_vars

\* C36: in Convergent and Divergent with calc_n >= 3 and a palette without
\* black, a full cycle restart occurs again and again, so eventually from
\* every reachable state, and the list of movers is not empty at the end of a
\* frame.
C36_RestartsForEver ==
    (CalcN >= 3) =>
        /\ []<>(MoverRunning /\ ret = <<"ok", "start_cycle">>)
        /\ [](MoverRunning => state.movers # <<>>)

\* Convergent on five pixels has restarted: the movers are back at the two
\* ends, the only lit pixels
C36_Witness ==
    /\ pc = "convergent" /\ CalcN = 5 /\ leds_n = 5
    /\ ret = <<"ok", "start_cycle">>
    /\ state.movers = <<0, 4>>
    /\ \A i \in 0..4 : (NeoPixelGet(leds_buf, i) # Black) <=> (i \in {0, 4})

=============================================================================
